---- MODULE Spec2Model ----
(***************************************************************************)
(* git-lint: policy evaluation and remediation engine.                     *)
(*                                                                         *)
(* The repository is the state: the repository-local configuration store,  *)
(* the remotes, the local branches, the stash, the working tree and two    *)
(* files.  Every rule has a Check (a list of results computed from the     *)
(* repository) and a Fix (a rewrite of that list that issues remediation   *)
(* commands).  Strings are real strings: URLs, configuration keys and      *)
(* result names are built and parsed as the Go code builds and parses      *)
(* them.                                                                   *)
(***************************************************************************)
EXTENDS Integers, Sequences, FiniteSets, TLC

(***************************************************************************)
(* String primitives of the Go standard library used by the rules.         *)
(***************************************************************************)
HasPrefix(s, p) == Len(s) >= Len(p) /\ SubSeq(s, 1, Len(p)) = p

HasSuffix(s, p) == Len(s) >= Len(p) /\ SubSeq(s, Len(s) - Len(p) + 1, Len(s)) = p

CutPrefix(s, p) == SubSeq(s, Len(p) + 1, Len(s))

TrimSuffix(s, p) == IF HasSuffix(s, p) THEN SubSeq(s, 1, Len(s) - Len(p)) ELSE s

Contains(s, sub) == \E i \in 1..(Len(s) - Len(sub) + 1) : SubSeq(s, i, i + Len(sub) - 1) = sub

\* 1-based position of the first occurrence of the one-character string ch, 0 when absent
IndexByte(s, ch) ==
    IF \E i \in 1..Len(s) : SubSeq(s, i, i) = ch
    THEN CHOOSE i \in 1..Len(s) : /\ SubSeq(s, i, i) = ch
                                  /\ \A j \in 1..(i - 1) : SubSeq(s, j, j) # ch
    ELSE 0

\* the fields of strings.SplitN(s, "/", 3), as a sequence of one, two or three strings
SplitN3(s) ==
    LET i == IndexByte(s, "/") IN
    IF i = 0 THEN <<s>>
    ELSE LET rest == SubSeq(s, i + 1, Len(s))
             j    == IndexByte(rest, "/") IN
         IF j = 0 THEN <<SubSeq(s, 1, i - 1), rest>>
         ELSE <<SubSeq(s, 1, i - 1), SubSeq(rest, 1, j - 1), SubSeq(rest, j + 1, Len(rest))>>

(***************************************************************************)
(* Result statuses and the result record.                                  *)
(***************************************************************************)
StatusOK == "ok"

StatusWarn == "warn"

StatusFail == "fail"

StatusFix == "fix"

ResultD(name, status, message, fixable, details) ==
    [Name |-> name, Status |-> status, Message |-> message, Fixable |-> fixable,
     Details |-> details]

Result(name, status, message, fixable) == ResultD(name, status, message, fixable, <<>>)

\* splitResultName: "rule[param]" into <<rule, param>>; no bracket gives <<name, "">>
splitResultName(name) ==
    LET i == IndexByte(name, "[") IN
    IF i > 0 THEN <<SubSeq(name, 1, i - 1), SubSeq(name, i + 1, Len(name) - 1)>>
    ELSE <<name, "">>

(***************************************************************************)
(* State.                                                                  *)
(***************************************************************************)
VARIABLES
    Config,      \* the loaded configuration (protocol, work orgs, identity, thresholds)
    gitcfg,      \* repository-local configuration store: key -> value, absent key = unset
    globalcfg,   \* global/system configuration: key -> value
    envcfg,      \* configuration injected through the environment (overrides every file)
    remotes,     \* remote names in enumeration order
    branches,    \* local branches: name -> attributes
    head,        \* checked-out branch, "" when HEAD is detached
    remoteRefs,  \* existing remote-tracking refs, e.g. "up/main"
    stash,       \* stash entries, newest first: sequence of commit dates
    dirty,       \* lines of `git status --porcelain`
    lastCommit,  \* date of the last commit on HEAD, -1 when there is none
    settings,    \* content class of .claude/settings.local.json
    exclude,     \* content of .git/info/exclude, "" when the file is missing
    submods,     \* submodules: sequence of [path, prefix, dirty, unpushed]
    gitmodules,  \* whether .gitmodules exists
    now,         \* wall clock
    api,         \* what the hosted fork-parent API answers now: [ok, parent]
    lsremote,    \* what `git ls-remote <remote> <pull ref>` answers now, per branch
    broken,      \* read subcommands that fail now
    Work,        \* Repo.Work, computed once by NewRepo
    rule,        \* rule whose Check or Fix ran last
    op,          \* "new", "check", "fix", "refix"; "run", "rcheck", "done" in a run of all checks; "recursive", "rec" in a recursive run
    res,         \* result list returned by the last Check or Fix
    prev,        \* argument of the last Fix
    log,         \* mutating commands issued by the last Check or Fix
    apiCalls,    \* fork-parent API queries issued in this process invocation
    pc,          \* runChecks: index in Rules of the check the loop is at, 0 outside a run
    fix,         \* runChecks: opts.fix
    allResults,  \* runChecks: the results appended so far
    code,        \* runChecks: the exit code it returned, -1 before it returns
    entries,     \* lintRecursive: what each directory entry is, in ReadDir order
    quiet,       \* lintRecursive: opts.quiet
    pos,         \* lintRecursive: number of entries the loop has passed
    first,       \* lintRecursive: no repository has been printed yet
    exitCode,    \* lintRecursive: the exit code gathered so far
    ran,         \* lintRecursive: the entries whose checks ran to the end
    status       \* lintRecursive: the value it returned, -1 before it returns

repovars == <<gitcfg, remotes, branches, head, remoteRefs, stash, dirty, lastCommit,
              settings, exclude, submods, gitmodules>>

envvars == <<Config, globalcfg, envcfg, now, api, lsremote, broken>>

procvars == <<Work, rule, op, res, prev, log, apiCalls>>

runvars == <<pc, fix, allResults, code>>

recvars == <<entries, quiet, pos, first, exitCode, ran, status>>

vars == <<repovars, envvars, procvars, runvars, recvars>>

(***************************************************************************)
(* Repository handle: scoped configuration and remote enumeration.         *)
(***************************************************************************)
\* GitConfig: `git config --local --get key`, "" when unset
GitConfig(c, key) == IF key \in DOMAIN c THEN c[key] ELSE ""

\* GitConfigEffective: `git config --get key`; the last source read wins:
\* system/global, then repository-local, then the environment
GitConfigEffective(c, g, e, key) ==
    IF key \in DOMAIN e THEN e[key]
    ELSE IF key \in DOMAIN c THEN c[key]
    ELSE IF key \in DOMAIN g THEN g[key]
    ELSE ""

\* SetGitConfig: the store after `git config key value` succeeded
SetGitConfig(c, key, value) ==
    [k \in (DOMAIN c) \cup {key} |-> IF k = key THEN value ELSE c[k]]

\* UnsetGitConfig: the store after `git config --unset key` succeeded
UnsetGitConfig(c, key) == [k \in (DOMAIN c) \ {key} |-> c[k]]

\* RemoteURL: the fetch URL as stored in the local store
RemoteURL(c, name) == GitConfig(c, "remote." \o name \o ".url")

\* MainBranch: "main" if it resolves, else "master" if it resolves, else ""
MainBranch(b) ==
    IF "main" \in DOMAIN b THEN "main"
    ELSE IF "master" \in DOMAIN b THEN "master"
    ELSE ""

\* workOrgInURL: whether the URL names one of the work orgs (the Go code returns the org)
workOrgInURL(url, orgs) ==
    \E org \in orgs : \/ Contains(url, "github.com/" \o org \o "/")
                      \/ Contains(url, "github.com:" \o org \o "/")

\* classify: the Work flag computed by NewRepo
classify(c, g, e, rem, cfg) ==
    \/ \E i \in 1..Len(rem) : workOrgInURL(RemoteURL(c, rem[i]), cfg.WorkOrgs)
    \/ LET email == GitConfigEffective(c, g, e, "user.email") IN
       email # "" /\ email = cfg.WorkEmail

(***************************************************************************)
(* Fork resolver.                                                          *)
(***************************************************************************)
GhParentKey == "remote.origin.gh-parent"

\* parseGitHubRepo: <<owner, repo>>, <<"", "">> when the URL is not a GitHub URL
parseGitHubRepo(url) ==
    LET path == IF HasPrefix(url, "https://github.com/") THEN CutPrefix(url, "https://github.com/")
                ELSE IF HasPrefix(url, "git@github.com:") THEN CutPrefix(url, "git@github.com:")
                ELSE "" IN
    IF ~(HasPrefix(url, "https://github.com/") \/ HasPrefix(url, "git@github.com:"))
    THEN <<"", "">>
    ELSE LET parts == SplitN3(path) IN
         IF Len(parts) < 2 THEN <<"", "">>
         ELSE <<parts[1], TrimSuffix(parts[2], ".git")>>

\* a mutating command issued by a handler, and whether it succeeded
Cmd(text, ok) == [cmd |-> text, ok |-> ok]

\* ForkParent asking the API again when the cache holds the sentinel
ForkParentRequeriesSentinel(c, a, w) ==
    LET cached == GitConfig(c, GhParentKey)
        pr     == parseGitHubRepo(RemoteURL(c, "origin"))
        write  == <<Cmd("config " \o GhParentKey, w)>> IN
    IF cached # "" /\ cached # "none" THEN [ret |-> cached, cfg |-> c, calls |-> 0, log |-> <<>>]
    ELSE IF pr[1] = "" THEN [ret |-> "", cfg |-> c, calls |-> 0, log |-> <<>>]
    ELSE IF ~a.ok THEN [ret |-> "", cfg |-> c, calls |-> 1, log |-> <<>>]
    ELSE IF a.parent = ""
         THEN [ret |-> "", cfg |-> IF w THEN SetGitConfig(c, GhParentKey, "none") ELSE c,
               calls |-> 1, log |-> write]
    ELSE [ret |-> a.parent, cfg |-> IF w THEN SetGitConfig(c, GhParentKey, a.parent) ELSE c,
          calls |-> 1, log |-> write]

\* ForkParent recording a failed lookup as "not a fork"
ForkParentCachesFailure(c, a, w) ==
    LET cached == GitConfig(c, GhParentKey)
        pr     == parseGitHubRepo(RemoteURL(c, "origin"))
        write  == <<Cmd("config " \o GhParentKey, w)>> IN
    IF cached = "none" THEN [ret |-> "", cfg |-> c, calls |-> 0, log |-> <<>>]
    ELSE IF cached # "" THEN [ret |-> cached, cfg |-> c, calls |-> 0, log |-> <<>>]
    ELSE IF pr[1] = "" THEN [ret |-> "", cfg |-> c, calls |-> 0, log |-> <<>>]
    ELSE IF ~a.ok \/ a.parent = ""
         THEN [ret |-> "", cfg |-> IF w THEN SetGitConfig(c, GhParentKey, "none") ELSE c,
               calls |-> 1, log |-> write]
    ELSE [ret |-> a.parent, cfg |-> IF w THEN SetGitConfig(c, GhParentKey, a.parent) ELSE c,
          calls |-> 1, log |-> write]

\* ForkParent caching origin's own owner/repo instead of the parent's
ForkParentCachesOrigin(c, a, w) ==
    LET cached == GitConfig(c, GhParentKey)
        pr     == parseGitHubRepo(RemoteURL(c, "origin"))
        write  == <<Cmd("config " \o GhParentKey, w)>> IN
    IF cached = "none" THEN [ret |-> "", cfg |-> c, calls |-> 0, log |-> <<>>]
    ELSE IF cached # "" THEN [ret |-> cached, cfg |-> c, calls |-> 0, log |-> <<>>]
    ELSE IF pr[1] = "" THEN [ret |-> "", cfg |-> c, calls |-> 0, log |-> <<>>]
    ELSE IF ~a.ok THEN [ret |-> "", cfg |-> c, calls |-> 1, log |-> <<>>]
    ELSE IF a.parent = ""
         THEN [ret |-> "", cfg |-> IF w THEN SetGitConfig(c, GhParentKey, "none") ELSE c,
               calls |-> 1, log |-> write]
    ELSE [ret |-> a.parent,
          cfg |-> IF w THEN SetGitConfig(c, GhParentKey, pr[1] \o "/" \o pr[2]) ELSE c,
          calls |-> 1, log |-> write]

\* ForkParent: [ret, cfg, calls, log] = the parent returned, the store afterwards,
\* the number of API queries issued and the configuration writes issued; a is
\* the API's answer, w whether the cache write succeeds (the code ignores its error)
ForkParent(c, a, w) ==
    LET cached == GitConfig(c, GhParentKey)
        pr     == parseGitHubRepo(RemoteURL(c, "origin"))
        write  == <<Cmd("config " \o GhParentKey, w)>> IN
    IF cached = "none" THEN [ret |-> "", cfg |-> c, calls |-> 0, log |-> <<>>]
    ELSE IF cached # "" THEN [ret |-> cached, cfg |-> c, calls |-> 0, log |-> <<>>]
    ELSE IF pr[1] = "" THEN [ret |-> "", cfg |-> c, calls |-> 0, log |-> <<>>]
    ELSE IF ~a.ok THEN [ret |-> "", cfg |-> c, calls |-> 1, log |-> <<>>]
    ELSE IF a.parent = ""
         THEN [ret |-> "", cfg |-> IF w THEN SetGitConfig(c, GhParentKey, "none") ELSE c,
               calls |-> 1, log |-> write]
    ELSE [ret |-> a.parent, cfg |-> IF w THEN SetGitConfig(c, GhParentKey, a.parent) ELSE c,
          calls |-> 1, log |-> write]

\* the first element of the sequence rem that is in the set hits, "" when none is
FirstRemote(rem, hits) ==
    LET idx == {i \in 1..Len(rem) : rem[i] \in hits} IN
    IF idx = {} THEN "" ELSE rem[CHOOSE i \in idx : \A j \in idx : i <= j]

\* ForkParentRemote: the first non-origin remote whose URL parses to the parent
ForkParentRemote(c, rem, a, w) ==
    LET Match(fp) ==
            LET hit(name) == /\ name # "origin"
                             /\ LET pr == parseGitHubRepo(RemoteURL(c, name)) IN
                                pr[1] # "" /\ pr[1] \o "/" \o pr[2] = fp.ret IN
            [fp EXCEPT !.ret = IF @ = "" THEN "" ELSE FirstRemote(rem, {rem[i] : i \in {j \in 1..Len(rem) : hit(rem[j])}})] IN
    Match(ForkParent(c, a, w))

\* upstreamFor: the fork parent remote, else the first non-origin work-org remote
upstreamFor(c, rem, orgs, a, w) ==
    LET hit(name) == name # "origin" /\ workOrgInURL(RemoteURL(c, name), orgs)
        Else(fp) == [fp EXCEPT !.ret = IF @ # "" THEN @ ELSE FirstRemote(rem, {rem[i] : i \in {j \in 1..Len(rem) : hit(rem[j])}})] IN
    Else(ForkParentRemote(c, rem, a, w))

(***************************************************************************)
(* Remote topology rule.                                                   *)
(***************************************************************************)
Quote(s) == "\"" \o s \o "\""

\* the marker key of origin, whatever the remote
GhResolvedKeyOfOrigin(name) == "remote.origin.gh-resolved"

GhResolvedKey(name) == "remote." \o name \o ".gh-resolved"

\* the gh-resolved entries flagging stale markers also when no parent remote is known
ghResolvedWithoutParent(c1, rem, parentRemote) ==
    LET resolved == GitConfig(c1, GhResolvedKey(parentRemote))
        stale == SelectSeq(rem, LAMBDA n : n # parentRemote /\ GitConfig(c1, GhResolvedKey(n)) # "")
        flagged == [i \in 1..Len(stale) |->
                      Result("remote/gh-resolved[" \o stale[i] \o "]", StatusFail,
                             stale[i] \o " has stale gh-resolved=" \o Quote(GitConfig(c1, GhResolvedKey(stale[i]))),
                             TRUE)] IN
    IF parentRemote = "" THEN flagged
    ELSE <<IF resolved = "base"
           THEN Result("remote/gh-resolved", StatusOK, parentRemote \o " gh-resolved is base", FALSE)
           ELSE Result("remote/gh-resolved", StatusFail,
                       parentRemote \o " gh-resolved is " \o Quote(resolved) \o ", should be base", TRUE)>>
         \o flagged

\* the gh-resolved entries of RemoteCheck.Check, given the fork parent remote
ghResolved(c1, rem, parentRemote) ==
    LET resolved == GitConfig(c1, GhResolvedKey(parentRemote))
        stale == SelectSeq(rem, LAMBDA n : n # parentRemote /\ GitConfig(c1, GhResolvedKey(n)) # "") IN
    IF parentRemote = "" THEN <<>>
    ELSE <<IF resolved = "base"
           THEN Result("remote/gh-resolved", StatusOK, parentRemote \o " gh-resolved is base", FALSE)
           ELSE Result("remote/gh-resolved", StatusFail,
                       parentRemote \o " gh-resolved is " \o Quote(resolved) \o ", should be base", TRUE)>>
         \o [i \in 1..Len(stale) |->
               Result("remote/gh-resolved[" \o stale[i] \o "]", StatusFail,
                      stale[i] \o " has stale gh-resolved=" \o Quote(GitConfig(c1, GhResolvedKey(stale[i]))),
                      TRUE)]

\* the remote/origin entry
originResult(c1, orgs) ==
    IF workOrgInURL(RemoteURL(c1, "origin"), orgs)
    THEN Result("remote/origin", StatusFail, "origin points to work org (expected personal fork)", FALSE)
    ELSE Result("remote/origin", StatusOK, "origin points to personal fork", FALSE)

\* the remote/tracking entry, given the remote main tracks and the one it should
trackingResult(mainBranch, upstream, want) ==
    IF want = "" \/ upstream = want
    THEN Result("remote/tracking", StatusOK, mainBranch \o " tracks " \o upstream, FALSE)
    ELSE Result("remote/tracking", StatusFail,
                mainBranch \o " tracks " \o Quote(upstream) \o ", should track " \o Quote(want), TRUE)

\* the remote/push-guard entry
guardResult(mainBranch, pushRemote) ==
    IF pushRemote = "no_push"
    THEN Result("remote/push-guard", StatusOK, mainBranch \o " pushRemote is no_push", FALSE)
    ELSE Result("remote/push-guard", StatusFail,
                mainBranch \o " pushRemote is " \o Quote(pushRemote) \o ", should be no_push", TRUE)

\* RemoteCheck.Check: [results, cfg, calls, log]; pr is what its first
\* ForkParentRemote call returned, up what upstreamFor returns after it
RemoteCheck(c, rem, b, work, orgs, a, w) ==
    LET Rest(pr, gh, mainBranch) ==
            LET Last(up) ==
                    [results |-> gh \o <<originResult(pr.cfg, orgs),
                                         trackingResult(mainBranch,
                                                        GitConfig(pr.cfg, "branch." \o mainBranch \o ".remote"),
                                                        up.ret),
                                         guardResult(mainBranch,
                                                     GitConfig(up.cfg, "branch." \o mainBranch \o ".pushRemote"))>>,
                     cfg |-> up.cfg, calls |-> pr.calls + up.calls, log |-> pr.log \o up.log] IN
            IF ~work THEN [results |-> gh, cfg |-> pr.cfg, calls |-> pr.calls, log |-> pr.log]
            ELSE IF mainBranch = ""
                 THEN [results |-> gh \o <<originResult(pr.cfg, orgs)>>, cfg |-> pr.cfg,
                       calls |-> pr.calls, log |-> pr.log]
            ELSE Last(upstreamFor(pr.cfg, rem, orgs, a, w))
        First(pr) == Rest(pr, ghResolved(pr.cfg, rem, pr.ret), MainBranch(b)) IN
    IF Len(rem) < 2 THEN [results |-> <<>>, cfg |-> c, calls |-> 0, log |-> <<>>]
    ELSE First(ForkParentRemote(c, rem, a, w))

\* The state a Fix threads through its loop: the parts of the repository a
\* remediation can change, the API queries and commands issued so far, and the
\* output list built so far.
World(c, b, st, ex, sm) ==
    [cfg |-> c, branches |-> b, settings |-> st, exclude |-> ex, submods |-> sm,
     calls |-> 0, log |-> <<>>, out |-> <<>>]

\* the entry is passed through unchanged
Keep(W, r) == [W EXCEPT !.out = Append(@, r)]

\* the entry is replaced by a FIX result that is still marked fixable
FixedStillFixable(W, r, message) == [W EXCEPT !.out = Append(@, Result(r.Name, StatusFix, message, TRUE))]

\* the entry is replaced by a FIX result
Fixed(W, r, message) == [W EXCEPT !.out = Append(@, Result(r.Name, StatusFix, message, FALSE))]

\* one `git config key value` (or --unset when value is "--unset"): the command is
\* logged, and applied unless it is one of the failing commands
Configure(W, key, value, bad) ==
    LET text == IF value = "--unset" THEN "config --unset " \o key ELSE "config " \o key
        ok   == text \notin bad /\ (value = "--unset" => key \in DOMAIN W.cfg) IN
    [W EXCEPT !.log = Append(@, Cmd(text, ok)),
              !.cfg = IF ~ok THEN @
                      ELSE IF value = "--unset" THEN UnsetGitConfig(@, key)
                      ELSE SetGitConfig(@, key, value)]

LastOk(W) == W.log[Len(W.log)].ok

\* the store, query count and writes of a fork-parent resolution folded into the world
Resolved(W, fp) ==
    [W EXCEPT !.cfg = fp.cfg, !.calls = @ + fp.calls, !.log = @ \o fp.log]

\* the end of one remediation: the entry is kept when the last command
\* failed, replaced by a FIX result otherwise
Finish(W, r, message) == IF ~LastOk(W) THEN Keep(W, r) ELSE Fixed(W, r, message)

\* RemoteCheck.Fix, one iteration of its loop over the entry r
RemoteFixStep(W, r, rem, orgs, a, bad) ==
    LET mainBranch == MainBranch(W.branches)
        w == ("config " \o GhParentKey) \notin bad
        Tracking2(W1, W2, want) ==
            IF ~LastOk(W1) \/ ~LastOk(W2) THEN Keep(W2, r)
            ELSE Fixed(W2, r, "set " \o mainBranch \o " to track " \o want \o "/" \o mainBranch)
        Tracking1(W1, want) ==
            Tracking2(W1, Configure(W1, "branch." \o mainBranch \o ".merge", "refs/heads/" \o mainBranch, bad),
                      want)
        TrackingFix(W0, want) ==
            IF want = "" THEN Keep(W0, r)
            ELSE Tracking1(Configure(W0, "branch." \o mainBranch \o ".remote", want, bad), want)
        Mark(W0, parentRemote) ==
            IF parentRemote = "" \/ parentRemote = "origin" THEN Keep(W0, r)
            ELSE Finish(Configure(W0, GhResolvedKey(parentRemote), "base", bad), r,
                        "set " \o parentRemote \o " gh-resolved to base")
        MarkFix(W0, ret) ==
            Mark(W0, IF ret = "" /\ mainBranch # ""
                     THEN GitConfig(W0.cfg, "branch." \o mainBranch \o ".remote")
                     ELSE ret)
        WithUp(up) == TrackingFix(Resolved(W, up), up.ret)
        WithParent(fp) == MarkFix(Resolved(W, fp), fp.ret)
        Unmark(name) ==
            Finish(Configure(W, GhResolvedKey(name), "--unset", bad), r,
                   "removed gh-resolved from " \o name) IN
    IF r.Status # StatusFail \/ ~r.Fixable THEN Keep(W, r)
    ELSE IF r.Name = "remote/tracking" /\ mainBranch # ""
    THEN WithUp(upstreamFor(W.cfg, rem, orgs, a, w))
    ELSE IF r.Name = "remote/push-guard" /\ mainBranch # ""
    THEN Finish(Configure(W, "branch." \o mainBranch \o ".pushRemote", "no_push", bad), r,
                "set " \o mainBranch \o " pushRemote to no_push")
    ELSE IF r.Name = "remote/gh-resolved"
    THEN WithParent(ForkParentRemote(W.cfg, rem, a, w))
    ELSE IF HasPrefix(r.Name, "remote/gh-resolved[")
    THEN Unmark(SubSeq(r.Name, Len("remote/gh-resolved[") + 1, Len(r.Name) - 1))
    ELSE Keep(W, r)

(***************************************************************************)
(* Identity rule.                                                          *)
(***************************************************************************)
\* IdentityCheck.Check
IdentityCheck(c, g, e, work, cfg) ==
    LET name == GitConfigEffective(c, g, e, "user.name")
        localEmail == GitConfig(c, "user.email")
        email == GitConfigEffective(c, g, e, "user.email")
        r1 == IF name = cfg.Name
              THEN Result("identity/name", StatusOK, name, FALSE)
              ELSE Result("identity/name", StatusFail,
                          "got " \o Quote(name) \o ", want " \o Quote(cfg.Name), TRUE)
        r2 == IF work
              THEN IF localEmail = cfg.WorkEmail
                   THEN Result("identity/email", StatusOK, localEmail, FALSE)
                   ELSE Result("identity/email", StatusFail,
                               "got " \o Quote(localEmail) \o ", want " \o Quote(cfg.WorkEmail), TRUE)
              ELSE IF email = cfg.WorkEmail \/ email = cfg.PersonalEmail
                   THEN Result("identity/email", StatusOK, email, FALSE)
                   ELSE Result("identity/email", StatusFail,
                               "got " \o Quote(email) \o ", want " \o Quote(cfg.WorkEmail)
                                 \o " or " \o Quote(cfg.PersonalEmail), TRUE) IN
    <<r1, r2>>

\* IdentityCheck.Fix reporting FIX whether or not the write succeeded
IdentityFixStepIgnoresError(W, r, work, cfg, bad) ==
    IF r.Status # StatusFail \/ ~r.Fixable THEN Keep(W, r)
    ELSE IF r.Name = "identity/name"
    THEN Fixed(Configure(W, "user.name", cfg.Name, bad), r, "set to " \o cfg.Name)
    ELSE IF r.Name = "identity/email"
    THEN LET wantEmail == IF work THEN cfg.WorkEmail ELSE cfg.PersonalEmail IN
         Fixed(Configure(W, "user.email", wantEmail, bad), r, "set to " \o wantEmail)
    ELSE Keep(W, r)

\* IdentityCheck.Fix, one iteration of its loop
IdentityFixStep(W, r, work, cfg, bad) ==
    IF r.Status # StatusFail \/ ~r.Fixable THEN Keep(W, r)
    ELSE IF r.Name = "identity/name"
    THEN LET W1 == Configure(W, "user.name", cfg.Name, bad) IN
         IF ~LastOk(W1) THEN Keep(W1, r) ELSE Fixed(W1, r, "set to " \o cfg.Name)
    ELSE IF r.Name = "identity/email"
    THEN LET wantEmail == IF work THEN cfg.WorkEmail ELSE cfg.PersonalEmail
             W1 == Configure(W, "user.email", wantEmail, bad) IN
         IF ~LastOk(W1) THEN Keep(W1, r) ELSE Fixed(W1, r, "set to " \o wantEmail)
    ELSE Keep(W, r)

(***************************************************************************)
(* Protocol rule.                                                          *)
(***************************************************************************)
\* urlProtocol: "https", "ssh" or ""
urlProtocol(url) ==
    IF HasPrefix(url, "https://") THEN "https"
    ELSE IF HasPrefix(url, "ssh://") \/ Contains(url, "@") THEN "ssh"
    ELSE ""

\* convertGitHubURL: the URL in the target protocol, "" when it cannot be converted
convertGitHubURL(url, target) ==
    IF target = "ssh" /\ HasPrefix(url, "https://github.com/")
    THEN "git@github.com:" \o CutPrefix(url, "https://github.com/")
    ELSE IF target = "https" /\ HasPrefix(url, "git@github.com:")
    THEN "https://github.com/" \o CutPrefix(url, "git@github.com:")
    ELSE ""

\* ProtocolCheck.Check
ProtocolCheck(c, rem, want) ==
    LET off == SelectSeq(rem, LAMBDA n : urlProtocol(RemoteURL(c, n)) # want)
        one(n) == LET url == RemoteURL(c, n)
                      msg == "uses " \o urlProtocol(url) \o ", want " \o want \o " (" \o url \o ")" IN
                  IF convertGitHubURL(url, want) # ""
                  THEN Result("remote/protocol[" \o n \o "]", StatusFail, msg, TRUE)
                  ELSE Result("remote/protocol[" \o n \o "]", StatusWarn, msg, FALSE) IN
    IF want = "" \/ Len(rem) = 0 THEN <<>>
    ELSE IF Len(off) = 0
    THEN <<Result("remote/protocol", StatusOK, "all remotes use " \o want, FALSE)>>
    ELSE [i \in 1..Len(off) |-> one(off[i])]

\* ProtocolCheck.Fix, one iteration of its loop
ProtocolFixStep(W, r, want, bad) ==
    IF r.Status # StatusFail \/ ~r.Fixable THEN Keep(W, r)
    ELSE LET name == SubSeq(r.Name, Len("remote/protocol[") + 1, Len(r.Name) - 1)
             converted == convertGitHubURL(RemoteURL(W.cfg, name), want)
             text == "remote set-url " \o name
             ok == text \notin bad
             W1 == [W EXCEPT !.log = Append(@, Cmd(text, ok)),
                             !.cfg = IF ok THEN SetGitConfig(@, "remote." \o name \o ".url", converted) ELSE @] IN
         IF converted = "" THEN Keep(W, r)
         ELSE IF ~ok THEN Keep(W1, r)
         ELSE Fixed(W1, r, "set to " \o converted)

(***************************************************************************)
(* Attribution and exclude rule.                                           *)
(***************************************************************************)
\* bufio.Scanner lines of a file's content: split at "\n", no final empty line
\* for a trailing newline
RECURSIVE ScanLines(_)
ScanLines(content) ==
    LET i == IndexByte(content, "\n") IN
    IF content = "" THEN <<>>
    ELSE IF i = 0 THEN <<content>>
    ELSE <<SubSeq(content, 1, i - 1)>> \o ScanLines(SubSeq(content, i + 1, Len(content)))

\* readLines: the lines of the file, none when it cannot be opened
readLines(content) == ScanLines(content)

containsLine(lines, target) == \E i \in 1..Len(lines) : lines[i] = target

claudeExcludePatterns == <<"CLAUDE.md", ".claude/">>

MissingPatterns(content) ==
    SelectSeq(claudeExcludePatterns, LAMBDA pat : ~containsLine(readLines(content), pat))

RECURSIVE Join(_, _)
Join(strs, sep) ==
    IF Len(strs) = 0 THEN ""
    ELSE IF Len(strs) = 1 THEN strs[1]
    ELSE strs[1] \o sep \o Join(Tail(strs), sep)

\* checkAttribution and the read in AttributionCheck.Check, by the class of the
\* file: "missing", "unreadable", "badjson", "noattr" (no attribution key),
\* "badattr" (attribution is not an object of strings), "nonempty", "empty"
checkAttribution(st) ==
    IF st = "missing"
    THEN Result("claude/attribution", StatusFail, ".claude/settings.local.json missing", TRUE)
    ELSE IF st = "unreadable"
    THEN Result("claude/attribution", StatusWarn, "cannot read .claude/settings.local.json", FALSE)
    ELSE IF st = "badjson"
    THEN Result("claude/attribution", StatusWarn, "cannot parse .claude/settings.local.json", FALSE)
    ELSE IF st = "noattr"
    THEN Result("claude/attribution", StatusFail, "attribution not configured", TRUE)
    ELSE IF st = "badattr"
    THEN Result("claude/attribution", StatusWarn, "cannot parse attribution", FALSE)
    ELSE IF st = "nonempty"
    THEN Result("claude/attribution", StatusFail, "attribution not empty", TRUE)
    ELSE Result("claude/attribution", StatusOK, "attribution is empty", FALSE)

\* checkExclude
checkExclude(content) ==
    LET missing == MissingPatterns(content) IN
    IF Len(missing) > 0
    THEN Result("claude/exclude", StatusFail, ".git/info/exclude missing: " \o Join(missing, ", "), TRUE)
    ELSE Result("claude/exclude", StatusOK, "claude files excluded", FALSE)

\* AttributionCheck.Check
AttributionCheck(st, content, work) ==
    IF ~work THEN <<>> ELSE <<checkAttribution(st), checkExclude(content)>>

\* a write to a file: logged, and applied unless it is one of the failing commands
RECURSIVE WriteAll(_, _, _, _)
WriteAll(W, chunks, i, bad) ==
    IF i > Len(chunks) THEN W
    ELSE LET text == "write exclude " \o ToString(i)
             ok == text \notin bad
             W1 == [W EXCEPT !.log = Append(@, Cmd(text, ok)),
                             !.exclude = IF ok THEN @ \o chunks[i] ELSE @] IN
         IF ok THEN WriteAll(W1, chunks, i + 1, bad) ELSE W1

\* ensureExcludePatterns: a newline when the last line is not empty, then one
\* write per missing pattern; the first failing write ends it with an error
ensureExcludePatterns(W, bad) ==
    LET existing == readLines(W.exclude)
        toAdd == MissingPatterns(W.exclude)
        nl == IF Len(existing) > 0 /\ existing[Len(existing)] # "" THEN <<"\n">> ELSE <<>>
        chunks == nl \o [i \in 1..Len(toAdd) |-> toAdd[i] \o "\n"] IN
    IF Len(toAdd) = 0 THEN W ELSE WriteAll(W, chunks, 1, bad)

\* ensureAttribution: [W, err]
ensureAttribution(W, bad) ==
    LET ok == "write settings" \notin bad
        W1 == [W EXCEPT !.log = Append(@, Cmd("write settings", ok)),
                        !.settings = IF ok THEN "empty" ELSE @] IN
    IF W.settings \in {"badjson", "unreadable"} THEN [W |-> W, err |-> TRUE]
    ELSE [W |-> W1, err |-> ~ok]

\* AttributionCheck.Fix, one iteration of its loop
AttributionFixStep(W, r, bad) ==
    IF ~r.Fixable THEN Keep(W, r)
    ELSE IF r.Name = "claude/attribution"
    THEN LET ea == ensureAttribution(W, bad) IN
         IF ea.err THEN Keep(ea.W, r)
         ELSE Fixed(ea.W, r, "set empty attribution in .claude/settings.local.json")
    ELSE IF r.Name = "claude/exclude"
    THEN LET W1 == ensureExcludePatterns(W, bad) IN
         IF Len(W1.log) > Len(W.log) /\ ~LastOk(W1) THEN Keep(W1, r)
         ELSE Fixed(W1, r, "added claude patterns to .git/info/exclude")
    ELSE Keep(W, r)

(***************************************************************************)
(* Staleness rule.  Time is counted in hours.                              *)
(***************************************************************************)
\* formatDuration: whole days as "<n>d", else Go's rendering of whole hours
formatDuration(d) ==
    IF d \div 24 > 0 THEN ToString(d \div 24) \o "d"
    ELSE IF d = 0 THEN "0s"
    ELSE ToString(d) \o "h0m0s"

\* stashEntries: the display string of the i-th entry
StashDisplay(i) == "stash@{" \o ToString(i - 1) \o "}"

\* uncommittedAge: time since the last commit, 0 when there is none
uncommittedAge(lc, t) == IF lc < 0 THEN 0 ELSE t - lc

\* StalenessCheck.Check comparing the stash age with >= in place of >
StalenessCheckInclusive(st, lines, lc, t, cfg, brk) ==
    LET maxAge == cfg.StashMaxAge
        maxCount == cfg.StashMaxCount
        oldIdx == SelectSeq([i \in 1..Len(st) |-> i], LAMBDA i : t - st[i] >= maxAge)
        oldDetails == [k \in 1..Len(oldIdx) |-> StashDisplay(oldIdx[k])]
        allDetails == [i \in 1..Len(st) |-> StashDisplay(i)]
        age1 == IF Len(oldDetails) > 0
                THEN ResultD("staleness/stash-age", StatusWarn,
                             ToString(Len(oldDetails)) \o " stash entries older than " \o formatDuration(maxAge),
                             FALSE, oldDetails)
                ELSE Result("staleness/stash-age", StatusOK, "no stale stash entries", FALSE)
        count == IF Len(st) > maxCount
                 THEN ResultD("staleness/stash-count", StatusWarn,
                              ToString(Len(st)) \o " entries (max " \o ToString(maxCount) \o ")",
                              FALSE, allDetails)
                 ELSE Result("staleness/stash-count", StatusOK, ToString(Len(st)) \o " entries", FALSE)
        stashPart == IF "stash list" \in brk THEN <<>> ELSE <<age1, count>>
        maxUncommitted == cfg.UncommittedMaxAge
        untrackedLines == SelectSeq(lines, LAMBDA l : HasPrefix(l, "?? "))
        uncommittedLines == SelectSeq(lines, LAMBDA l : ~HasPrefix(l, "?? "))
        age == uncommittedAge(lc, t)
        stale == age > maxUncommitted
        unc == IF Len(uncommittedLines) = 0 THEN <<>>
               ELSE IF stale
               THEN <<ResultD("staleness/uncommitted", StatusWarn,
                              "uncommitted changes for " \o formatDuration(age)
                                \o " (max " \o formatDuration(maxUncommitted) \o ")",
                              FALSE, uncommittedLines)>>
               ELSE <<Result("staleness/uncommitted", StatusOK, "uncommitted changes are recent", FALSE)>>
        unt == IF Len(untrackedLines) = 0 THEN <<>>
               ELSE IF stale
               THEN <<ResultD("staleness/untracked", StatusWarn,
                              ToString(Len(untrackedLines)) \o " untracked files for " \o formatDuration(age)
                                \o " (max " \o formatDuration(maxUncommitted) \o ")",
                              FALSE, untrackedLines)>>
               ELSE <<Result("staleness/untracked", StatusOK, "untracked files are recent", FALSE)>>
        clean == IF Len(uncommittedLines) = 0 /\ Len(untrackedLines) = 0
                 THEN <<Result("staleness/uncommitted", StatusOK, "working tree clean", FALSE)>>
                 ELSE <<>> IN
    stashPart \o unc \o unt \o clean

\* StalenessCheck.Check
StalenessCheck(st, lines, lc, t, cfg, brk) ==
    LET maxAge == cfg.StashMaxAge
        maxCount == cfg.StashMaxCount
        oldIdx == SelectSeq([i \in 1..Len(st) |-> i], LAMBDA i : t - st[i] > maxAge)
        oldDetails == [k \in 1..Len(oldIdx) |-> StashDisplay(oldIdx[k])]
        allDetails == [i \in 1..Len(st) |-> StashDisplay(i)]
        age1 == IF Len(oldDetails) > 0
                THEN ResultD("staleness/stash-age", StatusWarn,
                             ToString(Len(oldDetails)) \o " stash entries older than " \o formatDuration(maxAge),
                             FALSE, oldDetails)
                ELSE Result("staleness/stash-age", StatusOK, "no stale stash entries", FALSE)
        count == IF Len(st) > maxCount
                 THEN ResultD("staleness/stash-count", StatusWarn,
                              ToString(Len(st)) \o " entries (max " \o ToString(maxCount) \o ")",
                              FALSE, allDetails)
                 ELSE Result("staleness/stash-count", StatusOK, ToString(Len(st)) \o " entries", FALSE)
        stashPart == IF "stash list" \in brk THEN <<>> ELSE <<age1, count>>
        maxUncommitted == cfg.UncommittedMaxAge
        untrackedLines == SelectSeq(lines, LAMBDA l : HasPrefix(l, "?? "))
        uncommittedLines == SelectSeq(lines, LAMBDA l : ~HasPrefix(l, "?? "))
        age == uncommittedAge(lc, t)
        stale == age > maxUncommitted
        unc == IF Len(uncommittedLines) = 0 THEN <<>>
               ELSE IF stale
               THEN <<ResultD("staleness/uncommitted", StatusWarn,
                              "uncommitted changes for " \o formatDuration(age)
                                \o " (max " \o formatDuration(maxUncommitted) \o ")",
                              FALSE, uncommittedLines)>>
               ELSE <<Result("staleness/uncommitted", StatusOK, "uncommitted changes are recent", FALSE)>>
        unt == IF Len(untrackedLines) = 0 THEN <<>>
               ELSE IF stale
               THEN <<ResultD("staleness/untracked", StatusWarn,
                              ToString(Len(untrackedLines)) \o " untracked files for " \o formatDuration(age)
                                \o " (max " \o formatDuration(maxUncommitted) \o ")",
                              FALSE, untrackedLines)>>
               ELSE <<Result("staleness/untracked", StatusOK, "untracked files are recent", FALSE)>>
        clean == IF Len(uncommittedLines) = 0 /\ Len(untrackedLines) = 0
                 THEN <<Result("staleness/uncommitted", StatusOK, "working tree clean", FALSE)>>
                 ELSE <<>> IN
    stashPart \o unc \o unt \o clean

(***************************************************************************)
(* Local branches as the version-control tool reports them.                *)
(***************************************************************************)
\* the branch names the model draws from, in the order for-each-ref sorts them
BranchNames == <<"feat", "main", "master", "wip">>

\* localBranches: the names printed by for-each-ref refs/heads/
localBranches(b) == SelectSeq(BranchNames, LAMBDA n : n \in DOMAIN b)

\* %(upstream): the remote-tracking ref the branch is configured to track, ""
\* when it has none (a pull-request merge ref maps to no remote-tracking ref)
Upstream(c, name) ==
    LET remote == GitConfig(c, "branch." \o name \o ".remote")
        merge  == GitConfig(c, "branch." \o name \o ".merge") IN
    IF remote # "" /\ HasPrefix(merge, "refs/heads/")
    THEN "refs/remotes/" \o remote \o "/" \o CutPrefix(merge, "refs/heads/")
    ELSE ""

\* %(upstream:track): "[gone]" when the configured upstream ref does not exist
Track(c, name, rr) ==
    IF Upstream(c, name) # "" /\ CutPrefix(Upstream(c, name), "refs/remotes/") \notin rr
    THEN "[gone]" ELSE ""

\* whether <name>@{upstream} resolves
HasUpstream(c, name, rr) ==
    Upstream(c, name) # "" /\ CutPrefix(Upstream(c, name), "refs/remotes/") \in rr

\* `git merge-base --is-ancestor <branch> <ref>` succeeds; ref is a local
\* branch, or "<branch>@{upstream}"
IsAncestor(c, b, rr, name, ref) ==
    IF HasSuffix(ref, "@{upstream}")
    THEN LET base == TrimSuffix(ref, "@{upstream}") IN
         /\ HasUpstream(c, base, rr)
         /\ CutPrefix(Upstream(c, base), "refs/remotes/") \in b[name].anc
    ELSE ref \in DOMAIN b /\ (ref = name \/ ref \in b[name].anc)

(***************************************************************************)
(* Branch cleanup rule.                                                    *)
(***************************************************************************)
\* mergedBranches: the branches listed by `git branch --merged` for main's
\* upstream or for main
mergedBranches(c, b, rr, mainBranch) ==
    IF mainBranch = "" THEN {}
    ELSE {n \in DOMAIN b : \/ IsAncestor(c, b, rr, n, mainBranch \o "@{upstream}")
                           \/ IsAncestor(c, b, rr, n, mainBranch)}

\* stalePRCheckout taking a failed or empty ls-remote answer for a changed head
stalePRCheckoutOnFailure(c, b, rr, ls, branch, shortHash, author, mainBranch) ==
    LET mergeRef == GitConfig(c, "branch." \o branch \o ".merge")
        remote == GitConfig(c, "branch." \o branch \o ".remote")
        pr == SplitN3(CutPrefix(mergeRef, "refs/"))[2]
        detail == "(" \o shortHash \o " by " \o author \o ")" IN
    IF ~HasPrefix(mergeRef, "refs/pull/") THEN ""
    ELSE IF remote = "" THEN ""
    ELSE IF /\ mainBranch # ""
            /\ \/ IsAncestor(c, b, rr, branch, mainBranch \o "@{upstream}")
               \/ IsAncestor(c, b, rr, branch, mainBranch)
    THEN "PR #" \o pr \o " merged " \o detail
    ELSE IF ~HasPrefix(ls[branch], shortHash)
    THEN "PR #" \o pr \o " updated since checkout " \o detail
    ELSE ""

\* the number of `git ls-remote` commands stalePRCheckout runs for the branch
lsRemoteCalls(c, b, rr, branch, mainBranch) ==
    LET mergeRef == GitConfig(c, "branch." \o branch \o ".merge")
        remote == GitConfig(c, "branch." \o branch \o ".remote") IN
    IF ~HasPrefix(mergeRef, "refs/pull/") THEN 0
    ELSE IF remote = "" THEN 0
    ELSE IF /\ mainBranch # ""
            /\ \/ IsAncestor(c, b, rr, branch, mainBranch \o "@{upstream}")
               \/ IsAncestor(c, b, rr, branch, mainBranch)
    THEN 0
    ELSE 1

\* stalePRCheckout: the reason, "" when the branch is not a stale PR checkout;
\* ls is the answer of `git ls-remote`: "fail", "" or the commit id
stalePRCheckout(c, b, rr, ls, branch, shortHash, author, mainBranch) ==
    LET mergeRef == GitConfig(c, "branch." \o branch \o ".merge")
        remote == GitConfig(c, "branch." \o branch \o ".remote")
        pr == SplitN3(CutPrefix(mergeRef, "refs/"))[2]
        detail == "(" \o shortHash \o " by " \o author \o ")" IN
    IF ~HasPrefix(mergeRef, "refs/pull/") THEN ""
    ELSE IF remote = "" THEN ""
    ELSE IF /\ mainBranch # ""
            /\ \/ IsAncestor(c, b, rr, branch, mainBranch \o "@{upstream}")
               \/ IsAncestor(c, b, rr, branch, mainBranch)
    THEN "PR #" \o pr \o " merged " \o detail
    ELSE IF ls[branch] = "fail" \/ ls[branch] = "" THEN ""
    ELSE IF ~HasPrefix(ls[branch], shortHash)
    THEN "PR #" \o pr \o " updated since checkout " \o detail
    ELSE ""

\* the loop body marking every entry fixable, the checked-out branch's too
BranchResultAlwaysFixable(c, b, rr, ls, hd, cfg, name) ==
    LET mainBranch == MainBranch(b)
        hash == b[name].hash
        author == b[name].author
        reason == stalePRCheckout(c, b, rr, ls, name, hash, author, mainBranch)
        mk(rname, msg) == <<Result(rname \o "[" \o name \o "]", StatusWarn, msg, TRUE)>> IN
    IF name = mainBranch THEN <<>>
    ELSE IF Contains(Track(c, name, rr), "gone")
    THEN mk("branch/gone", "upstream deleted (" \o hash \o " by " \o author \o ")")
    ELSE IF name \in mergedBranches(c, b, rr, mainBranch)
    THEN mk("branch/merged", "merged into " \o mainBranch \o " (" \o hash \o " by " \o author \o ")")
    ELSE IF reason # ""
    THEN mk("branch/pr", reason)
    ELSE IF Upstream(c, name) = "" /\ author # cfg.Name
    THEN mk("branch/orphan", "no upstream, tip by " \o author \o " (" \o hash \o ")")
    ELSE <<>>

\* the loop body with independent tests in place of the else-if chain
BranchResultEveryMatch(c, b, rr, ls, hd, cfg, name) ==
    LET mainBranch == MainBranch(b)
        hash == b[name].hash
        author == b[name].author
        fixable == name # hd
        reason == stalePRCheckout(c, b, rr, ls, name, hash, author, mainBranch)
        suffix == IF fixable THEN "" ELSE " (checked out, switch branch to fix)"
        mk(rname, msg) == <<Result(rname \o "[" \o name \o "]", StatusWarn, msg \o suffix, fixable)>> IN
    IF name = mainBranch THEN <<>>
    ELSE (IF Contains(Track(c, name, rr), "gone")
          THEN mk("branch/gone", "upstream deleted (" \o hash \o " by " \o author \o ")") ELSE <<>>)
      \o (IF name \in mergedBranches(c, b, rr, mainBranch)
          THEN mk("branch/merged", "merged into " \o mainBranch \o " (" \o hash \o " by " \o author \o ")")
          ELSE <<>>)
      \o (IF reason # "" THEN mk("branch/pr", reason) ELSE <<>>)
      \o (IF Upstream(c, name) = "" /\ author # cfg.Name
          THEN mk("branch/orphan", "no upstream, tip by " \o author \o " (" \o hash \o ")") ELSE <<>>)

\* the loop body testing merged before gone
BranchResultMergedFirst(c, b, rr, ls, hd, cfg, name) ==
    LET mainBranch == MainBranch(b)
        hash == b[name].hash
        author == b[name].author
        fixable == name # hd
        reason == stalePRCheckout(c, b, rr, ls, name, hash, author, mainBranch)
        suffix == IF fixable THEN "" ELSE " (checked out, switch branch to fix)"
        mk(rname, msg) == <<Result(rname \o "[" \o name \o "]", StatusWarn, msg \o suffix, fixable)>> IN
    IF name = mainBranch THEN <<>>
    ELSE IF name \in mergedBranches(c, b, rr, mainBranch)
    THEN mk("branch/merged", "merged into " \o mainBranch \o " (" \o hash \o " by " \o author \o ")")
    ELSE IF Contains(Track(c, name, rr), "gone")
    THEN mk("branch/gone", "upstream deleted (" \o hash \o " by " \o author \o ")")
    ELSE IF reason # ""
    THEN mk("branch/pr", reason)
    ELSE IF Upstream(c, name) = "" /\ author # cfg.Name
    THEN mk("branch/orphan", "no upstream, tip by " \o author \o " (" \o hash \o ")")
    ELSE <<>>

\* the loop body classifying the main branch like any other
BranchResultWithMain(c, b, rr, ls, hd, cfg, name) ==
    LET mainBranch == MainBranch(b)
        hash == b[name].hash
        author == b[name].author
        fixable == name # hd
        reason == stalePRCheckout(c, b, rr, ls, name, hash, author, mainBranch)
        suffix == IF fixable THEN "" ELSE " (checked out, switch branch to fix)"
        mk(rname, msg) == <<Result(rname \o "[" \o name \o "]", StatusWarn, msg \o suffix, fixable)>> IN
    IF Contains(Track(c, name, rr), "gone")
    THEN mk("branch/gone", "upstream deleted (" \o hash \o " by " \o author \o ")")
    ELSE IF name \in mergedBranches(c, b, rr, mainBranch)
    THEN mk("branch/merged", "merged into " \o mainBranch \o " (" \o hash \o " by " \o author \o ")")
    ELSE IF reason # ""
    THEN mk("branch/pr", reason)
    ELSE IF Upstream(c, name) = "" /\ author # cfg.Name
    THEN mk("branch/orphan", "no upstream, tip by " \o author \o " (" \o hash \o ")")
    ELSE <<>>

\* the body of the loop of BranchCleanupCheck.Check: the results for one branch
BranchResult(c, b, rr, ls, hd, cfg, name) ==
    LET mainBranch == MainBranch(b)
        hash == b[name].hash
        author == b[name].author
        fixable == name # hd
        reason == stalePRCheckout(c, b, rr, ls, name, hash, author, mainBranch)
        suffix == IF fixable THEN "" ELSE " (checked out, switch branch to fix)"
        mk(rname, msg) == <<Result(rname \o "[" \o name \o "]", StatusWarn, msg \o suffix, fixable)>> IN
    IF name = mainBranch THEN <<>>
    ELSE IF Contains(Track(c, name, rr), "gone")
    THEN mk("branch/gone", "upstream deleted (" \o hash \o " by " \o author \o ")")
    ELSE IF name \in mergedBranches(c, b, rr, mainBranch)
    THEN mk("branch/merged", "merged into " \o mainBranch \o " (" \o hash \o " by " \o author \o ")")
    ELSE IF reason # ""
    THEN mk("branch/pr", reason)
    ELSE IF Upstream(c, name) = "" /\ author # cfg.Name
    THEN mk("branch/orphan", "no upstream, tip by " \o author \o " (" \o hash \o ")")
    ELSE <<>>

RECURSIVE Flatten(_)
Flatten(seqs) == IF Len(seqs) = 0 THEN <<>> ELSE Head(seqs) \o Flatten(Tail(seqs))

\* BranchCleanupCheck.Check
BranchCleanupCheck(c, b, rr, ls, hd, cfg, brk) ==
    LET names == localBranches(b)
        results == Flatten([i \in 1..Len(names) |-> BranchResult(c, b, rr, ls, hd, cfg, names[i])]) IN
    IF "for-each-ref" \in brk \/ Len(names) = 0 THEN <<>>
    ELSE IF Len(results) = 0
    THEN <<Result("branch/cleanup", StatusOK, "no stale branches", FALSE)>>
    ELSE results

\* `git branch -D name`: refused for a missing branch and for the checked-out
\* one; on success the branch and its configuration section are gone
DeleteBranch(W, name, hd, bad) ==
    LET text == "branch -D " \o name
        ok == text \notin bad /\ name \in DOMAIN W.branches /\ name # hd IN
    [W EXCEPT !.log = Append(@, Cmd(text, ok)),
              !.branches = IF ok THEN [n \in (DOMAIN @) \ {name} |-> @[n]] ELSE @,
              !.cfg = IF ok
                      THEN UnsetGitConfig(UnsetGitConfig(@, "branch." \o name \o ".remote"),
                                          "branch." \o name \o ".merge")
                      ELSE @]

\* BranchCleanupCheck.Fix without its test of Fixable
BranchFixStepUnguarded(W, r, hd, bad) ==
    LET param == splitResultName(r.Name)[2]
        W1 == DeleteBranch(W, param, hd, bad) IN
    IF param = "" THEN Keep(W, r)
    ELSE IF ~LastOk(W1) THEN Keep(W1, r)
    ELSE Fixed(W1, r, "deleted " \o param)

\* BranchCleanupCheck.Fix, one iteration of its loop
BranchFixStep(W, r, hd, bad) ==
    LET param == splitResultName(r.Name)[2]
        W1 == DeleteBranch(W, param, hd, bad) IN
    IF ~r.Fixable THEN Keep(W, r)
    ELSE IF param = "" THEN Keep(W, r)
    ELSE IF ~LastOk(W1) THEN Keep(W1, r)
    ELSE Fixed(W1, r, "deleted " \o param)

(***************************************************************************)
(* Unpushed-commit rule.                                                   *)
(***************************************************************************)
\* the skip test at the head of the loop of UnpushedCheck.Check: branches
\* left to branch cleanup's orphan and PR-checkout detection
UnpushedSkips(c, b, cfg, branch) ==
    LET remote == GitConfig(c, "branch." \o branch \o ".remote")
        author == b[branch].author
        mergeRef == GitConfig(c, "branch." \o branch \o ".merge") IN
    IF remote = "" THEN author # "" /\ author # cfg.Name
    ELSE HasPrefix(mergeRef, "refs/pull/")

\* the results of UnpushedCheck.Check for one branch; commits are the dates of
\* the commits unpushedCommits returns for it
UnpushedResult(c, b, t, cfg, branch) ==
    LET commits == b[branch].commits
        maxAge == cfg.UnpushedMaxAge
        staleIdx == SelectSeq([i \in 1..Len(commits) |-> i], LAMBDA i : t - commits[i] > maxAge)
        details == [i \in 1..Len(commits) |-> "commit (" \o formatDuration(t - commits[i]) \o " ago)"]
        author == b[branch].author
        by == IF author # "" /\ author # cfg.Name THEN " (by " \o author \o ")" ELSE ""
        msg == ToString(Len(staleIdx)) \o "/" \o ToString(Len(details)) \o " commits older than "
                 \o formatDuration(maxAge) \o by IN
    IF UnpushedSkips(c, b, cfg, branch) THEN <<>>
    ELSE IF Len(commits) = 0 THEN <<>>
    ELSE IF Len(staleIdx) > 0
    THEN <<ResultD("staleness/unpushed[" \o branch \o "]", StatusFail, msg, FALSE, details)>>
    ELSE <<>>

\* UnpushedCheck.Check
UnpushedCheck(c, b, t, cfg, brk) ==
    LET names == localBranches(b)
        results == Flatten([i \in 1..Len(names) |-> UnpushedResult(c, b, t, cfg, names[i])])
        none == <<Result("staleness/unpushed", StatusOK, "no unpushed commits", FALSE)>> IN
    IF cfg.UnpushedMaxAge = 0 THEN <<>>
    ELSE IF "for-each-ref" \in brk \/ Len(names) = 0 THEN none
    ELSE IF Len(results) = 0 THEN none
    ELSE results

(***************************************************************************)
(* Submodule rule.                                                         *)
(***************************************************************************)
\* checkSubmodule: the results for one submodule [path, prefix, lines, unpushed]
checkSubmodule(m) ==
    LET untracked == SelectSeq(m.lines, LAMBDA l : HasPrefix(l, "?? "))
        uncommitted == SelectSeq(m.lines, LAMBDA l : ~HasPrefix(l, "?? "))
        sync == IF m.prefix = "+"
                THEN <<Result("submodule/sync[" \o m.path \o "]", StatusWarn,
                              "checked-out commit differs from parent", FALSE)>>
                ELSE <<>>
        unc == IF Len(uncommitted) > 0
               THEN <<ResultD("submodule/uncommitted[" \o m.path \o "]", StatusWarn,
                              ToString(Len(uncommitted)) \o " uncommitted changes", FALSE, uncommitted)>>
               ELSE <<>>
        unt == IF Len(untracked) > 0
               THEN <<ResultD("submodule/untracked[" \o m.path \o "]", StatusWarn,
                              ToString(Len(untracked)) \o " untracked files", FALSE,
                              [i \in 1..Len(untracked) |-> CutPrefix(untracked[i], "?? ")])>>
               ELSE <<>>
        unp == IF m.unpushed > 0
               THEN <<Result("submodule/unpushed[" \o m.path \o "]", StatusWarn,
                             ToString(m.unpushed) \o " unpushed commits", FALSE)>>
               ELSE <<>> IN
    IF m.prefix = "-"
    THEN <<Result("submodule/init[" \o m.path \o "]", StatusWarn, "submodule not initialized", TRUE)>>
    ELSE sync \o unc \o unt \o unp

\* SubmoduleCheck.Check
SubmoduleCheck(sm, gm, brk) ==
    IF ~gm THEN <<>>
    ELSE IF "submodule status" \in brk
    THEN <<Result("submodule/status", StatusWarn, "cannot read submodule status", FALSE)>>
    ELSE Flatten([i \in 1..Len(sm) |-> checkSubmodule(sm[i])])

\* SubmoduleCheck.Fix marking its entries fixed whatever the command returned
SubmoduleFixIgnoresError(W, results, bad) ==
    LET fixable == SelectSeq(results, LAMBDA r : r.Fixable /\ splitResultName(r.Name)[2] # "")
        paths == {splitResultName(fixable[i].Name)[2] : i \in 1..Len(fixable)}
        text == "submodule update --init"
        ok == text \notin bad
        W1 == [W EXCEPT !.log = Append(@, Cmd(text, ok)),
                        !.submods = IF ~ok THEN @
                                    ELSE [i \in 1..Len(@) |->
                                            IF @[i].path \in paths /\ @[i].prefix = "-"
                                            THEN [@[i] EXCEPT !.prefix = " "] ELSE @[i]]]
        one(r) == IF ~r.Fixable THEN r
                  ELSE Result(r.Name, StatusFix, "initialized " \o splitResultName(r.Name)[2], FALSE) IN
    IF Len(fixable) = 0 THEN [W EXCEPT !.out = results]
    ELSE [W1 EXCEPT !.out = [i \in 1..Len(results) |-> one(results[i])]]

\* SubmoduleCheck.Fix: one `git submodule update --init --recursive -- paths`
\* for all fixable entries
SubmoduleFix(W, results, bad) ==
    LET fixable == SelectSeq(results, LAMBDA r : r.Fixable /\ splitResultName(r.Name)[2] # "")
        paths == {splitResultName(fixable[i].Name)[2] : i \in 1..Len(fixable)}
        text == "submodule update --init"
        ok == text \notin bad
        W1 == [W EXCEPT !.log = Append(@, Cmd(text, ok)),
                        !.submods = IF ~ok THEN @
                                    ELSE [i \in 1..Len(@) |->
                                            IF @[i].path \in paths /\ @[i].prefix = "-"
                                            THEN [@[i] EXCEPT !.prefix = " "] ELSE @[i]]]
        one(r) == IF ~r.Fixable \/ ~ok THEN r
                  ELSE Result(r.Name, StatusFix, "initialized " \o splitResultName(r.Name)[2], FALSE) IN
    IF Len(fixable) = 0 THEN [W EXCEPT !.out = results]
    ELSE [W1 EXCEPT !.out = [i \in 1..Len(results) |-> one(results[i])]]

(***************************************************************************)
(* Run orchestrator: the rules in their declared order, and the dispatch   *)
(* of Check and Fix to them.                                               *)
(***************************************************************************)
Rules == <<"identity", "protocol", "remote", "attribution", "staleness", "submodule",
           "branch", "unpushed">>

RuleSet == {Rules[i] : i \in 1..Len(Rules)}

\* c.Check(repo) for rule r on the current state: [results, cfg, calls, log];
\* only the remote rule's fork-parent resolution touches the store
CheckOf(r, bad) ==
    LET pure(results) == [results |-> results, cfg |-> gitcfg, calls |-> 0, log |-> <<>>] IN
    CASE r = "identity"    -> pure(IdentityCheck(gitcfg, globalcfg, envcfg, Work, Config))
      [] r = "protocol"    -> pure(ProtocolCheck(gitcfg, remotes, Config.Protocol))
      [] r = "remote"      -> RemoteCheck(gitcfg, remotes, branches, Work, Config.WorkOrgs, api,
                                          ("config " \o GhParentKey) \notin bad)
      [] r = "attribution" -> pure(AttributionCheck(settings, exclude, Work))
      [] r = "staleness"   -> pure(StalenessCheck(stash, dirty, lastCommit, now, Config, broken))
      [] r = "submodule"   -> pure(SubmoduleCheck(submods, gitmodules, broken))
      [] r = "branch"      -> pure(BranchCleanupCheck(gitcfg, branches, remoteRefs, lsremote, head,
                                                      Config, broken))
      [] r = "unpushed"    -> pure(UnpushedCheck(gitcfg, branches, now, Config, broken))

\* the loop of the Fix of the rules that remediate entry by entry
RECURSIVE FixLoop(_, _, _, _, _)
FixLoop(r, results, i, W, bad) ==
    IF i > Len(results) THEN W
    ELSE LET Step(e) ==
                 CASE r = "identity"    -> IdentityFixStep(W, e, Work, Config, bad)
                   [] r = "protocol"    -> ProtocolFixStep(W, e, Config.Protocol, bad)
                   [] r = "remote"      -> RemoteFixStep(W, e, remotes, Config.WorkOrgs, api, bad)
                   [] r = "attribution" -> AttributionFixStep(W, e, bad)
                   [] r = "branch"      -> BranchFixStep(W, e, head, bad) IN
         FixLoop(r, results, i + 1, Step(results[i]), bad)

\* c.Fix(repo, results) for rule r on the current state: the final world
FixOf(r, results, bad) ==
    LET W == World(gitcfg, branches, settings, exclude, submods) IN
    IF r \in {"staleness", "unpushed"} THEN [W EXCEPT !.out = results]
    ELSE IF r = "submodule" THEN SubmoduleFix(W, results, bad)
    ELSE FixLoop(r, results, 1, W, bad)

\* hasFailures taking a warning for a failure
hasFailuresOrWarnings(results) ==
    \E i \in 1..Len(results) : results[i].Status \in {StatusFail, StatusWarn}

\* hasFailures
hasFailures(results) == \E i \in 1..Len(results) : results[i].Status = StatusFail

ApiAnswers ==
    {[ok |-> FALSE, parent |-> ""], [ok |-> TRUE, parent |-> ""],
     [ok |-> TRUE, parent |-> "up/proj"], [ok |-> TRUE, parent |-> "acme/proj"]}

(***************************************************************************)
(* Bounds.                                                                 *)
(***************************************************************************)
\* fork-parent API queries counted per process invocation
MaxApiCalls == 4

\* the clock value of every run; dates range over 0..Now
Now == 3

\* largest threshold drawn for the staleness rules
MaxThreshold == 2

\* the command failures a handler is run under: none, any single command, or
\* every command it would issue
FailSets(cmds) == {{}} \cup {{x} : x \in cmds} \cup {cmds}

LogCmds(lg) == {lg[i].cmd : i \in 1..Len(lg)}

(***************************************************************************)
(* Initial states: a compliant personal repository, varied one rule's      *)
(* inputs at a time.                                                       *)
(***************************************************************************)
\* a store from a set of <<key, value>> pairs; pairs with value "" are unset keys
Store(pairs) ==
    [k \in {p[1] : p \in {q \in pairs : q[2] # ""}} |-> (CHOOSE p \in pairs : p[1] = k)[2]]

\* the store c with the pairs written over it
With(c, pairs) ==
    LET n == Store(pairs) IN
    [k \in (DOMAIN c) \cup (DOMAIN n) |-> IF k \in DOMAIN n THEN n[k] ELSE c[k]]

Alice == "Alice"

Bob == "Bob"

WorkEmail == "alice@acme.com"

PersonalEmail == "alice@example.com"

BaseConfig ==
    [Protocol |-> "ssh", WorkOrgs |-> {"acme"}, Name |-> Alice, WorkEmail |-> WorkEmail,
     PersonalEmail |-> PersonalEmail, StashMaxAge |-> MaxThreshold, StashMaxCount |-> MaxThreshold,
     UncommittedMaxAge |-> MaxThreshold, UnpushedMaxAge |-> MaxThreshold]

Branch(hash, author, anc, commits) ==
    [hash |-> hash, author |-> author, anc |-> anc, commits |-> commits]

\* the local branches from a set of <<name, branch>> pairs
BranchesOf(pairs) == [k \in {p[1] : p \in pairs} |-> (CHOOSE p \in pairs : p[1] = k)[2]]

MainPair == <<"main", Branch("a1b2c3d", Alice, {}, <<>>)>>

MainOnly == BranchesOf({MainPair})

Base ==
    [Config |-> BaseConfig,
     gitcfg |-> Store({<<"user.name", Alice>>, <<"user.email", PersonalEmail>>,
                       <<"remote.origin.url", "git@github.com:alice/proj.git">>}),
     globalcfg |-> Store({}), envcfg |-> Store({}),
     remotes |-> <<"origin">>, branches |-> MainOnly, head |-> "main",
     remoteRefs |-> {"origin/main", "origin/feat"},
     stash |-> <<>>, dirty |-> <<>>, lastCommit |-> Now,
     settings |-> "empty", exclude |-> "CLAUDE.md\n.claude/\n",
     submods |-> <<>>, gitmodules |-> FALSE,
     api |-> [ok |-> FALSE, parent |-> ""],
     lsremote |-> [n \in {"feat", "main", "master", "wip"} |-> "fail"],
     broken |-> {}]

\* identity: the three sources of user.name and user.email
IdentityStates ==
    {[Base EXCEPT !.gitcfg = With(@, {<<"user.name", ln>>, <<"user.email", le>>}),
                  !.globalcfg = g, !.envcfg = e] :
        ln \in {"", Alice, Bob},
        le \in {"", WorkEmail, PersonalEmail, "bob@example.com"},
        g \in {Store({}), Store({<<"user.name", Alice>>, <<"user.email", WorkEmail>>})},
        e \in {Store({}), Store({<<"user.name", Bob>>}), Store({<<"user.email", "bob@example.com">>})}}

UpURL == "https://github.com/up/proj.git"

WorkURL == "git@github.com:acme/proj.git"

\* a repository with the remotes rem, origin at ou, the cache at cached, the
\* gh-resolved markers gr of origin and up, and main tracking tr; no protocol
\* is configured, and the identity is the one the repository's kind wants
RemoteState(rem, ou, cached, gr, tr) ==
    [Base EXCEPT !.Config = [@ EXCEPT !.Protocol = ""],
                 !.remotes = rem,
                 !.gitcfg = With(@, {<<"user.email", IF Len(rem) = 3 \/ Contains(ou, "acme")
                                                     THEN WorkEmail ELSE PersonalEmail>>,
                                     <<"remote.origin.url", ou>>, <<"remote.up.url", UpURL>>,
                                     <<"remote.work.url", WorkURL>>, <<GhParentKey, cached>>,
                                     <<GhResolvedKey("origin"), gr[1]>>, <<GhResolvedKey("up"), gr[2]>>,
                                     <<"branch.main.remote", tr>>,
                                     <<"branch.main.merge", IF tr = "" THEN "" ELSE "refs/heads/main">>})]

RemoteLists == {<<"origin", "up">>, <<"work", "origin", "up">>}

\* fork resolution: origin's URL against the cache
ForkStates ==
    {RemoteState(rem, ou, cached, <<"", "">>, "") :
        rem \in RemoteLists,
        ou \in {"git@github.com:alice/proj.git", "https://example.com/alice/proj.git",
                "https://github.com/acme/proj"},
        cached \in {"", "none", "up/proj", "other/proj"}}

\* remote topology: the gh-resolved markers and main's tracking
RemoteStates ==
    {RemoteState(rem, "git@github.com:alice/proj.git", cached, gr, tr) :
        rem \in RemoteLists,
        cached \in {"", "up/proj"},
        gr \in {<<"", "base">>, <<"base", "other">>},
        tr \in {"", "up"}}

\* protocol: the configured protocol against URL shapes
ProtocolStates ==
    {[Base EXCEPT !.Config = [@ EXCEPT !.Protocol = want],
                  !.remotes = <<"origin", "up">>,
                  !.gitcfg = With(@, {<<"remote.origin.url", ou>>, <<"remote.up.url", uu>>,
                                      <<GhParentKey, "none">>})] :
        want \in {"", "ssh", "https"},
        ou \in {"git@github.com:alice/proj.git", "https://github.com/alice/proj.git"},
        uu \in {UpURL, "ssh://git@github.com/up/proj.git", "https://example.com/up/proj.git",
                "/srv/git/proj.git"}}

\* attribution: the settings file and the exclude file of a work or personal repository
AttributionStates ==
    {[Base EXCEPT !.gitcfg = With(@, {<<"user.email", le>>}), !.settings = st, !.exclude = ex] :
        le \in {WorkEmail, PersonalEmail},
        st \in {"missing", "unreadable", "badjson", "noattr", "badattr", "nonempty", "empty"},
        ex \in {"", "*.log\n", "*.log", "CLAUDE.md\n", ".claude/\n*.log", "CLAUDE.md\n.claude/\n",
                "#CLAUDE.md\n\n"}}

Thresholds == 0..MaxThreshold

Dates == 0..Now

\* stash: the age and count thresholds against up to two entries
StashStates ==
    {[Base EXCEPT !.Config = [@ EXCEPT !.StashMaxAge = ta, !.StashMaxCount = tc],
                  !.stash = st, !.broken = brk] :
        ta \in Thresholds, tc \in Thresholds,
        st \in {<<>>} \cup {<<d>> : d \in Dates} \cup {<<Now - 1, d>> : d \in Dates},
        brk \in {{}}}
      \cup {[Base EXCEPT !.stash = <<0>>, !.broken = {"stash list"}]}

\* working tree: the uncommitted threshold against the last commit's date
DirtyStates ==
    {[Base EXCEPT !.Config = [@ EXCEPT !.UncommittedMaxAge = tu],
                  !.dirty = lines, !.lastCommit = lc] :
        tu \in Thresholds,
        lines \in {<<>>, <<" M a.go">>, <<"?? b.txt">>, <<"?? b.txt", "A  c.go", "?? d.txt">>},
        lc \in {-1} \cup Dates}

\* how a branch is configured to track: nothing, a remote without a merge
\* ref, a branch that exists, a branch that is gone, a pull-request ref, a
\* pull-request ref without a remote
Tracking(name, kind) ==
    CASE kind = "none" -> {}
      [] kind = "remote" -> {<<"branch." \o name \o ".remote", "origin">>}
      [] kind = "live" -> {<<"branch." \o name \o ".remote", "origin">>,
                           <<"branch." \o name \o ".merge", "refs/heads/feat">>}
      [] kind = "gone" -> {<<"branch." \o name \o ".remote", "origin">>,
                           <<"branch." \o name \o ".merge", "refs/heads/" \o name \o "-old">>}
      [] kind = "pull" -> {<<"branch." \o name \o ".remote", "origin">>,
                           <<"branch." \o name \o ".merge", "refs/pull/42/head">>}
      [] kind = "pullonly" -> {<<"branch." \o name \o ".merge", "refs/pull/42/head">>}

\* how main exists: not at all, without an upstream, tracking origin/main
MainKinds == {"absent", "local", "tracking"}

MainPart(kind) == IF kind = "absent" THEN {} ELSE {MainPair}

MainTracking(kind) ==
    IF kind = "tracking"
    THEN {<<"branch.main.remote", "origin">>, <<"branch.main.merge", "refs/heads/main">>}
    ELSE {}

\* unpushed commits: the threshold against the commit dates of one branch
UnpushedStates ==
    {[Base EXCEPT !.Config = [@ EXCEPT !.UnpushedMaxAge = tp],
                  !.branches = BranchesOf({MainPair, <<"feat", Branch("b2c3d4e", author, {}, commits)>>}),
                  !.gitcfg = With(@, Tracking("feat", kind)),
                  !.broken = brk] :
        tp \in Thresholds,
        author \in {Alice, Bob},
        commits \in {<<>>} \cup {<<d>> : d \in Dates} \cup {<<Now, d>> : d \in Dates},
        kind \in {"none", "remote", "live", "pull"},
        brk \in {{}}}

\* a tracking form with what ls-remote answers for it; only a pull-request
\* checkout asks ls-remote
KindLs ==
    {<<k, "fail">> : k \in {"none", "live", "gone", "pullonly"}}
      \cup {<<"pull", l>> : l \in {"fail", "", "b2c3d4e5f6", "ffffffffff"}}

\* branch cleanup: every combination of the signals of one branch, under each
\* form of main and each checked-out branch
BranchStates ==
    {[Base EXCEPT !.branches = BranchesOf(MainPart(mk) \cup {<<"feat", Branch("b2c3d4e", author, anc, <<>>)>>}),
                  !.gitcfg = With(@, Tracking("feat", kl[1]) \cup MainTracking(mk)),
                  !.head = hd,
                  !.lsremote = [@ EXCEPT !["feat"] = kl[2]]] :
        mk \in MainKinds,
        kl \in KindLs,
        anc \in {{}, {"main"}, {"origin/main"}},
        author \in {Alice, Bob},
        hd \in {"", "feat"}}

\* branch cleanup over two candidate branches
TwoBranchStates ==
    {[Base EXCEPT !.branches = BranchesOf({MainPair, <<"feat", Branch("b2c3d4e", Bob, fa, <<0>>)>>,
                                             <<"wip", Branch("c3d4e5f", wa, {}, <<0>>)>>}),
                  !.gitcfg = With(@, Tracking("feat", fk) \cup Tracking("wip", wk)),
                  !.head = hd,
                  !.lsremote = [@ EXCEPT !["feat"] = "ffffffffff", !["wip"] = "ffffffffff"],
                  !.broken = brk] :
        fk \in {"none", "gone", "pull"},
        fa \in {{}, {"main"}},
        wk \in {"none", "gone", "live"},
        wa \in {Alice, Bob},
        hd \in {"main", "wip"},
        brk \in {{}, {"for-each-ref"}}}

Module(path, prefix, lines, unpushed) ==
    [path |-> path, prefix |-> prefix, lines |-> lines, unpushed |-> unpushed]

\* submodules: none, one, or two in any status
SubmoduleStates ==
    {[Base EXCEPT !.gitmodules = gm, !.submods = sm, !.broken = brk] :
        gm \in BOOLEAN,
        sm \in {<<>>}
               \cup {<<Module("libA", px, lines, n)>> :
                       px \in {"-", "+", " "}, lines \in {<<>>, <<"?? x", " M y">>}, n \in {0, 1}}
               \cup {<<Module("libA", px, <<>>, 0), Module("libB", py, <<>>, 0)>> :
                       px \in {"-", "+"}, py \in {"-", " "}},
        brk \in {{}, {"submodule status"}}}

\* the main branch: main, master or both, in every tracking form and by either
\* author, next to a branch that branch cleanup reports; HEAD on any of them
\* or detached
MainStates ==
    UNION {{[Base EXCEPT !.branches = BranchesOf({<<n, Branch("a1b2c3d", author, {}, <<>>)>> : n \in names}
                                                   \cup {<<"feat", Branch("b2c3d4e", Bob, {}, <<>>)>>}),
                         !.gitcfg = With(@, UNION {Tracking(n, kind) : n \in names}),
                         !.head = hd,
                         !.lsremote = [@ EXCEPT !["main"] = "ffffffffff", !["master"] = "ffffffffff"]] :
               author \in {Alice, Bob},
               kind \in {"none", "gone", "pull"},
               hd \in names \cup {"feat", ""}} :
           names \in {{"main"}, {"master"}, {"main", "master"}}}

Scenarios ==
    IdentityStates \cup ForkStates \cup RemoteStates \cup ProtocolStates \cup AttributionStates \cup StashStates
      \cup DirtyStates \cup UnpushedStates \cup BranchStates \cup TwoBranchStates \cup SubmoduleStates
      \cup MainStates

\* the repository and environment S, and a process that has just opened it
Load(S) ==
    /\ Config = S.Config
    /\ gitcfg = S.gitcfg
    /\ globalcfg = S.globalcfg
    /\ envcfg = S.envcfg
    /\ remotes = S.remotes
    /\ branches = S.branches
    /\ head = S.head
    /\ remoteRefs = S.remoteRefs
    /\ stash = S.stash
    /\ dirty = S.dirty
    /\ lastCommit = S.lastCommit
    /\ settings = S.settings
    /\ exclude = S.exclude
    /\ submods = S.submods
    /\ gitmodules = S.gitmodules
    /\ now = Now
    /\ api = S.api
    /\ lsremote = S.lsremote
    /\ broken = S.broken
    /\ Work = classify(S.gitcfg, S.globalcfg, S.envcfg, S.remotes, S.Config)
    /\ rule = ""
    /\ res = <<>>
    /\ prev = <<>>
    /\ log = <<>>
    /\ apiCalls = 0

\* no run of all checks is under way
NoRun == pc = 0 /\ fix = FALSE /\ allResults = <<>> /\ code = -1

\* no recursive run is under way
NoRecursion ==
    /\ entries = <<>> /\ quiet = FALSE /\ pos = 0 /\ first = TRUE
    /\ exitCode = 0 /\ ran = <<>> /\ status = -1

Init ==
    \E S \in Scenarios :
        /\ Load(S)
        /\ op = "new"
        /\ NoRun
        /\ NoRecursion

(***************************************************************************)
(* Actions.                                                                *)
(***************************************************************************)
\* NewRepo: a new process invocation on the repository; Work is classified once
NewRepo ==
    /\ op # "new"
    /\ Work' = classify(gitcfg, globalcfg, envcfg, remotes, Config)
    /\ op' = "new"
    /\ rule' = ""
    /\ res' = <<>>
    /\ prev' = <<>>
    /\ log' = <<>>
    /\ apiCalls' = 0
    /\ UNCHANGED <<repovars, envvars, runvars, recvars>>

\* one rule's Check; a process is followed through one rule at a time
DoCheck(r) ==
    \E bad \in FailSets(LogCmds(CheckOf(r, {}).log)) :
        \E ck \in {CheckOf(r, bad)} :
            /\ op = "new" \/ rule = r
            /\ apiCalls + ck.calls <= MaxApiCalls
            /\ gitcfg' = ck.cfg
            /\ res' = ck.results
            /\ log' = ck.log
            /\ apiCalls' = apiCalls + ck.calls
            /\ rule' = r
            /\ op' = "check"
            /\ prev' = <<>>
            /\ UNCHANGED <<remotes, branches, head, remoteRefs, stash, dirty, lastCommit,
                           settings, exclude, submods, gitmodules, envvars, Work,
                           runvars, recvars>>

\* the Fix of the rule whose Check or Fix returned res
DoFix ==
    /\ op \in {"check", "fix", "refix"}
    /\ \E bad \in FailSets(LogCmds(FixOf(rule, res, {}).log)) :
        \E W \in {FixOf(rule, res, bad)} :
            /\ apiCalls + W.calls <= MaxApiCalls
            /\ gitcfg' = W.cfg
            /\ branches' = W.branches
            /\ settings' = W.settings
            /\ exclude' = W.exclude
            /\ submods' = W.submods
            /\ prev' = res
            /\ res' = W.out
            /\ log' = W.log
            /\ apiCalls' = apiCalls + W.calls
            /\ op' = IF op = "check" THEN "fix" ELSE "refix"
            /\ UNCHANGED <<remotes, head, remoteRefs, stash, dirty, lastCommit, gitmodules,
                           envvars, Work, rule, runvars, recvars>>

\* between two invocations the hosted API starts answering differently about
\* origin's repository
ApiChange ==
    /\ op = "new"
    /\ Len(remotes) >= 2
    /\ parseGitHubRepo(RemoteURL(gitcfg, "origin"))[1] # ""
    /\ \E a \in ApiAnswers \ {api} : api' = a
    /\ UNCHANGED <<repovars, Config, globalcfg, envcfg, now, lsremote, broken, procvars,
                   runvars, recvars>>

Next ==
    \/ NewRepo
    \/ \E r \in RuleSet : DoCheck(r)
    \/ DoFix
    \/ ApiChange

Spec == Init /\ [][Next]_vars

(***************************************************************************)
(* runChecks: one process runs every check in the declared order on one    *)
(* repository, each followed by its Fix when fix is on, and returns the     *)
(* exit code.                                                              *)
(***************************************************************************)
\* NewRepo has succeeded and the loop over the checks is about to start
\* the answers the hosted API may give about the origin of S: any, when the
\* resolver can come to ask
AnswersFor(S) ==
    IF Len(S.remotes) >= 2 /\ parseGitHubRepo(RemoteURL(S.gitcfg, "origin"))[1] # ""
    THEN ApiAnswers ELSE {S.api}

RunInit ==
    \E S \in Scenarios, f \in BOOLEAN :
      \E a \in AnswersFor(S) :
        /\ Load([S EXCEPT !.api = a])
        /\ op = "run"
        /\ pc = 1 /\ fix = f /\ allResults = <<>> /\ code = -1
        /\ NoRecursion

\* results := c.Check(repo); without fix the results are appended at once
RunCheck ==
    /\ op = "run" /\ pc \in 1..Len(Rules)
    /\ \E bad \in FailSets(LogCmds(CheckOf(Rules[pc], {}).log)) :
        \E ck \in {CheckOf(Rules[pc], bad)} :
            /\ apiCalls + ck.calls <= MaxApiCalls
            /\ gitcfg' = ck.cfg
            /\ res' = ck.results
            /\ log' = ck.log
            /\ apiCalls' = apiCalls + ck.calls
            /\ rule' = Rules[pc]
            /\ prev' = <<>>
            /\ op' = IF fix THEN "rcheck" ELSE "run"
            /\ pc' = IF fix THEN pc ELSE pc + 1
            /\ allResults' = IF fix THEN allResults ELSE allResults \o ck.results
            /\ UNCHANGED <<remotes, branches, head, remoteRefs, stash, dirty, lastCommit,
                           settings, exclude, submods, gitmodules, envvars, Work,
                           fix, code, recvars>>

\* results = c.Fix(repo, results), appended to allResults
RunFix ==
    /\ op = "rcheck"
    /\ \E bad \in FailSets(LogCmds(FixOf(rule, res, {}).log)) :
        \E W \in {FixOf(rule, res, bad)} :
            /\ apiCalls + W.calls <= MaxApiCalls
            /\ gitcfg' = W.cfg
            /\ branches' = W.branches
            /\ settings' = W.settings
            /\ exclude' = W.exclude
            /\ submods' = W.submods
            /\ prev' = res
            /\ res' = W.out
            /\ log' = W.log
            /\ apiCalls' = apiCalls + W.calls
            /\ op' = "run"
            /\ pc' = pc + 1
            /\ allResults' = allResults \o W.out
            /\ UNCHANGED <<remotes, head, remoteRefs, stash, dirty, lastCommit, gitmodules,
                           envvars, Work, rule, fix, code, recvars>>

\* the loop is over: 1 when any result is a FAIL, 0 otherwise
RunReturn ==
    /\ op = "run" /\ pc = Len(Rules) + 1
    /\ code' = IF hasFailures(allResults) THEN 1 ELSE 0
    /\ op' = "done"
    /\ UNCHANGED <<repovars, envvars, Work, rule, res, prev, log, apiCalls, pc, fix,
                   allResults, recvars>>

RunNext ==
    \/ RunCheck
    \/ RunFix
    \/ RunReturn

RunSpec == RunInit /\ [][RunNext]_vars

(***************************************************************************)
(* A recursive run: lintRecursive over the entries of the current          *)
(* directory.  What runChecks does inside one repository is the run of     *)
(* RunSpec; here a repository entry carries the results that run gathers.  *)
(***************************************************************************)
MaxEntries == 3

\* hasNonOK
hasNonOK(results) == \E i \in 1..Len(results) : results[i].Status # StatusOK

\* result lists a run of all checks can gather: clean, a warning, a failure
Gathered ==
    {<<Result("identity/name", StatusOK, "Alice", FALSE)>>,
     <<Result("identity/name", StatusOK, "Alice", FALSE),
       Result("staleness/stash-count", StatusWarn, "25 entries (max 20)", FALSE)>>,
     <<Result("identity/name", StatusFail, "not set", TRUE),
       Result("staleness/stash-count", StatusOK, "0 entries", FALSE)>>}

\* a directory entry: a file, a directory without .git, a repository whose
\* absolute path cannot be formed, one whose root cannot be determined, and
\* repositories a run of all checks completes on
DirEntry(dir, git, abs, root, results) ==
    [dir |-> dir, git |-> git, abs |-> abs, root |-> root, results |-> results]

DirEntries ==
    {DirEntry(FALSE, FALSE, TRUE, FALSE, <<>>), DirEntry(TRUE, FALSE, TRUE, FALSE, <<>>),
     DirEntry(TRUE, TRUE, FALSE, TRUE, <<>>), DirEntry(TRUE, TRUE, TRUE, FALSE, <<>>)}
      \cup {DirEntry(TRUE, TRUE, TRUE, TRUE, g) : g \in Gathered}

Listings == UNION {[1..n -> DirEntries] : n \in 0..MaxEntries}

\* runChecks taking a repository that cannot be opened for one without results
runChecksWithoutFatal(e) == <<e.results, IF hasFailures(e.results) THEN 1 ELSE 0>>

\* runChecks on entry e: (nil, 2) when NewRepo fails, else the results and the code
runChecks(e) ==
    IF ~e.root THEN <<<<>>, 2>>
    ELSE <<e.results, IF hasFailures(e.results) THEN 1 ELSE 0>>

RecInit ==
    /\ Load(Base)
    /\ op = "recursive"
    /\ pc = 0 /\ fix \in BOOLEAN /\ allResults = <<>> /\ code = -1
    /\ entries = <<>> /\ quiet \in BOOLEAN /\ pos = 0 /\ first = TRUE
    /\ exitCode = 0 /\ ran = <<>> /\ status = -1

\* os.ReadDir(".") and the initialisation of the loop
RecReadDir ==
    /\ op = "recursive"
    /\ \/ \E d \in Listings : entries' = d /\ op' = "rec" /\ status' = status
       \/ entries' = entries /\ op' = "done" /\ status' = 2
    /\ UNCHANGED <<repovars, envvars, Work, rule, res, prev, log, apiCalls, runvars, quiet, pos, first, exitCode, ran>>

\* one iteration of the loop over the entries
RecStep ==
    /\ op = "rec"
    /\ pos < Len(entries)
    /\ pos' = pos + 1
    /\ LET e == entries[pos + 1]
           rc == runChecks(e)
           called == [entry |-> pos + 1, fix |-> fix, results |-> rc[1], code |-> rc[2], shown |-> FALSE]
       IN  IF ~e.dir \/ ~e.git
           THEN UNCHANGED <<first, exitCode, ran>>
           ELSE IF ~e.abs
           THEN /\ exitCode' = IF exitCode < 2 THEN 2 ELSE exitCode
                /\ UNCHANGED <<first, ran>>
           ELSE IF rc[2] = 2
           THEN /\ exitCode' = IF exitCode < 2 THEN 2 ELSE exitCode
                /\ ran' = Append(ran, called)
                /\ UNCHANGED first
           ELSE IF quiet /\ ~hasNonOK(rc[1])
           THEN /\ ran' = Append(ran, called)
                /\ UNCHANGED <<first, exitCode>>
           ELSE /\ first' = FALSE
                /\ ran' = Append(ran, [called EXCEPT !.shown = TRUE])
                /\ exitCode' = IF rc[2] > exitCode THEN rc[2] ELSE exitCode
    /\ UNCHANGED <<repovars, envvars, procvars, runvars, entries, quiet, status>>

\* the end of the loop and the return
RecReturn ==
    /\ op = "rec"
    /\ pos = Len(entries)
    /\ status' = IF first THEN (IF quiet THEN exitCode ELSE 2) ELSE exitCode
    /\ op' = "done"
    /\ UNCHANGED <<repovars, envvars, Work, rule, res, prev, log, apiCalls, runvars, entries, quiet, pos, first, exitCode, ran>>

RecNext ==
    \/ RecReadDir
    \/ RecStep
    \/ RecReturn

RecSpec == RecInit /\ [][RecNext]_vars

(***************************************************************************)
(* Properties.                                                             *)
(***************************************************************************)
\* C1 (as claimed): a Check changes no repository state at all, the fork-parent
\* cache key included, and a second Check returns the results of the first.
CheckChangesNothing ==
    [][op' = "check" =>
          /\ UNCHANGED repovars
          /\ op = "check" => res' = res]_vars

\* C1 (amended): a Check changes no branch, remote, file or configuration key
\* other than the fork-parent cache key, which only the remote rule's Check
\* writes, and only from absent to a value; a second Check of the rule in the
\* same invocation returns the results of the first.
CheckWritesOnlyTheCache ==
    [][op' = "check" =>
          /\ UNCHANGED <<remotes, branches, head, remoteRefs, stash, dirty, lastCommit,
                         settings, exclude, submods, gitmodules>>
          /\ DOMAIN gitcfg \subseteq DOMAIN gitcfg'
          /\ \A k \in DOMAIN gitcfg : gitcfg'[k] = gitcfg[k]
          /\ DOMAIN gitcfg' \subseteq DOMAIN gitcfg \cup {GhParentKey}
          /\ gitcfg' # gitcfg => rule' = "remote"
          /\ op = "check" => res' = res]_vars

\* the remote rule's Check has just written the fork-parent cache and reported
CheckWroteTheCache ==
    /\ op = "check" /\ rule = "remote"
    /\ Len(log) = 1 /\ log[1].ok
    /\ GitConfig(gitcfg, GhParentKey) = "up/proj"
    /\ \E i \in 1..Len(res) : res[i].Name = "remote/gh-resolved"

\* the failures a Check of the remote rule can meet
CacheWriteFails == {{}, {"config " \o GhParentKey}}

\* the entries of a Check of rule r, run now, about the entity of entry e
Recheck(r, e, bad) ==
    SelectSeq(CheckOf(r, bad).results, LAMBDA x : x.Name = e.Name)

\* C2 (as claimed): once a Fix has replaced an entry by a FIX result, a Check of
\* the same rule run immediately afterwards never reports FAIL for that entity.
FixedStaysFixed ==
    op = "fix" =>
        \A i \in 1..Len(res) :
            res[i].Status = StatusFix /\ prev[i].Status # StatusFix =>
                \A bad \in CacheWriteFails :
                    \A x \in {Recheck(rule, res[i], bad)[j] : j \in 1..Len(Recheck(rule, res[i], bad))} :
                        x.Status # StatusFail

\* C3: a Fix applied to the list a previous Fix returned, in which no fixable
\* entry is left, issues no mutating command and returns that list unchanged;
\* and no Fix ever replaces an entry whose status is FIX or OK.
FixOfFixIsNoop ==
    /\ op = "refix" /\ (\A i \in 1..Len(prev) : ~prev[i].Fixable) => log = <<>> /\ res = prev
    /\ op \in {"fix", "refix"} =>
          /\ Len(res) = Len(prev)
          /\ \A i \in 1..Len(prev) : prev[i].Status \in {StatusFix, StatusOK} => res[i] = prev[i]

\* a second Fix has run on a list in which the first Fix fixed every fixable entry
SecondFixRan ==
    /\ op = "refix"
    /\ \A i \in 1..Len(prev) : ~prev[i].Fixable
    /\ \E i \in 1..Len(prev) : prev[i].Status = StatusFix

\* the signals of a local branch, each on its own
IsGone(name) == Contains(Track(gitcfg, name, remoteRefs), "gone")

IsMerged(name) == name \in mergedBranches(gitcfg, branches, remoteRefs, MainBranch(branches))

IsStalePR(name) ==
    stalePRCheckout(gitcfg, branches, remoteRefs, lsremote, name, branches[name].hash,
                    branches[name].author, MainBranch(branches)) # ""

IsOrphan(name) == Upstream(gitcfg, name) = "" /\ branches[name].author # Config.Name

\* the rule names of the entries of res about the branch
KindsFor(name) ==
    LET about == SelectSeq(res, LAMBDA x : splitResultName(x.Name)[2] = name) IN
    [i \in 1..Len(about) |-> splitResultName(about[i].Name)[1]]

\* C4: one branch-cleanup Check emits at most one result per branch, and it is
\* the first of gone, merged, PR-stale, orphan that the branch matches.
PriorityExclusive ==
    op = "check" /\ rule = "branch" /\ "for-each-ref" \notin broken =>
        \A name \in (DOMAIN branches) \ {MainBranch(branches)} :
            KindsFor(name) = IF IsGone(name) THEN <<"branch/gone">>
                             ELSE IF IsMerged(name) THEN <<"branch/merged">>
                             ELSE IF IsStalePR(name) THEN <<"branch/pr">>
                             ELSE IF IsOrphan(name) THEN <<"branch/orphan">>
                             ELSE <<>>

\* a branch that is merged and also an orphan has been reported as merged
SeveralSignals ==
    /\ op = "check" /\ rule = "branch"
    /\ \E name \in DOMAIN branches :
          /\ IsMerged(name) /\ IsOrphan(name) /\ ~IsGone(name)
          /\ KindsFor(name) = <<"branch/merged">>

\* the entry is about the checked-out branch
AboutHead(e) == head # "" /\ splitResultName(e.Name)[2] = head

\* C5: the checked-out branch is reported when it matches a classifier, as a
\* non-fixable entry whose message says to switch branches; Fix passes that
\* entry through unchanged, never issues `git branch -D` for that branch, and
\* the branch is never deleted.
CurrentBranchGuard ==
    /\ head # "" => head \in DOMAIN branches
    /\ rule = "branch" /\ op = "check" /\ "for-each-ref" \notin broken =>
          /\ \A i \in 1..Len(res) :
                AboutHead(res[i]) =>
                    /\ ~res[i].Fixable
                    /\ HasSuffix(res[i].Message, " (checked out, switch branch to fix)")
          /\ head # "" /\ head # MainBranch(branches)
               /\ (IsGone(head) \/ IsMerged(head) \/ IsStalePR(head) \/ IsOrphan(head))
               => \E i \in 1..Len(res) : AboutHead(res[i])
    /\ rule = "branch" /\ op \in {"fix", "refix"} =>
          /\ \A k \in 1..Len(log) : log[k].cmd # "branch -D " \o head
          /\ \A i \in 1..Len(prev) : AboutHead(prev[i]) => res[i] = prev[i]

\* a Fix has run over an entry about the checked-out branch and a fixable one
HeadWasReported ==
    /\ rule = "branch" /\ op = "fix"
    /\ \E i \in 1..Len(prev) : AboutHead(prev[i]) /\ res[i] = prev[i]
    /\ \E i \in 1..Len(prev) : res[i].Status = StatusFix

\* the value of the fork-parent cache key in the store c, "" when absent
Cache(c) == GitConfig(c, GhParentKey)

\* the resolver has something to ask about: origin is a GitHub repository
OriginOnGitHub == parseGitHubRepo(RemoteURL(gitcfg, "origin"))[1] # ""

\* C6: once the cache key holds a value, ForkParent returns from it (the
\* owner/repo verbatim, nothing for the sentinel) whatever the API would answer,
\* no step of the invocation queries the API, and the key keeps its value.
CacheShortCircuit ==
    [][Cache(gitcfg) # "" =>
          /\ \A a \in ApiAnswers, w \in BOOLEAN :
                ForkParent(gitcfg, a, w) =
                    [ret |-> IF Cache(gitcfg) = "none" THEN "" ELSE Cache(gitcfg),
                     cfg |-> gitcfg, calls |-> 0, log |-> <<>>]
          /\ apiCalls' <= apiCalls
          /\ Cache(gitcfg') = Cache(gitcfg)]_vars

\* the remote rule's Check has run from a cached parent while the API fails or
\* names another parent, and has reported the cached parent's remote
ServedFromCache ==
    /\ op = "check" /\ rule = "remote"
    /\ Cache(gitcfg) = "up/proj" /\ api # [ok |-> TRUE, parent |-> "up/proj"]
    /\ apiCalls = 0
    /\ \E i \in 1..Len(res) : res[i].Name = "remote/gh-resolved"

\* C7 (as claimed): one invocation queries the fork-parent API at most once
\* over all its Check and Fix calls, whatever the API answers and whether or
\* not the cache write succeeds.
InvocationQueriesOnce == apiCalls <= 1

\* C8: a failed lookup returns no fork parent and leaves the cache key absent;
\* no step writes the key while the API fails; the sentinel appears only when
\* the API succeeds with an empty parent; and a Check of the remote rule that
\* finds the key absent and the API succeeding writes the real parent (the
\* sentinel for an empty one), which the key then holds when git accepts the write.
FailureNotCached ==
    [][/\ Cache(gitcfg) = "" =>
            \A w \in BOOLEAN :
                LET fp == ForkParent(gitcfg, [ok |-> FALSE, parent |-> ""], w) IN
                fp.ret = "" /\ fp.cfg = gitcfg /\ fp.log = <<>>
       /\ Cache(gitcfg) = "" /\ ~api.ok => Cache(gitcfg') = ""
       /\ Cache(gitcfg') = "none" /\ Cache(gitcfg) # "none" => api.ok /\ api.parent = ""
       /\ op' = "check" /\ rule' = "remote" /\ Cache(gitcfg) = "" /\ Len(remotes) >= 2 /\ OriginOnGitHub =>
            IF ~api.ok
            THEN /\ log' = <<>> /\ apiCalls' > apiCalls
                 /\ \A i \in 1..Len(res') : ~HasPrefix(res'[i].Name, "remote/gh-resolved")
            ELSE /\ Len(log') >= 1 /\ log'[1].cmd = "config " \o GhParentKey
                 /\ Cache(gitcfg') = IF ~log'[1].ok THEN ""
                                     ELSE IF api.parent = "" THEN "none" ELSE api.parent]_vars

\* a lookup has just failed: the API was queried, nothing was cached
LookupFailed ==
    /\ op = "check" /\ rule = "remote"
    /\ ~api.ok /\ apiCalls >= 1
    /\ Cache(gitcfg) = ""

\* the entries of res with the given name
Entry(name) == SelectSeq(res, LAMBDA x : x.Name = name)

\* the stash entries, and the unpushed commits of a branch, older than T
OldStashes(T) == {i \in 1..Len(stash) : now - stash[i] > T}

OldCommits(name, T) == {i \in 1..Len(branches[name].commits) : now - branches[name].commits[i] > T}

\* the entries of a sequence of strings
Range(seq) == {seq[i] : i \in 1..Len(seq)}

\* the last commit is older than T
TreeIsOld(T) == uncommittedAge(lastCommit, now) > T

\* C9: under a configured (non-zero) threshold, a stash entry, the working
\* tree's changes and an unpushed commit are flagged exactly when their age is
\* strictly greater than the threshold, and the stash count warns exactly when
\* it is strictly greater than the maximum.
StrictThreshold ==
    /\ op = "check" /\ rule = "staleness" /\ "stash list" \notin broken =>
          /\ Config.StashMaxAge > 0 =>
                /\ Len(Entry("staleness/stash-age")) = 1
                /\ Range(Entry("staleness/stash-age")[1].Details)
                     = {StashDisplay(i) : i \in OldStashes(Config.StashMaxAge)}
                /\ Entry("staleness/stash-age")[1].Status
                     = IF OldStashes(Config.StashMaxAge) # {} THEN StatusWarn ELSE StatusOK
          /\ Config.StashMaxCount > 0 =>
                /\ Len(Entry("staleness/stash-count")) = 1
                /\ Entry("staleness/stash-count")[1].Status
                     = IF Len(stash) > Config.StashMaxCount THEN StatusWarn ELSE StatusOK
    /\ op = "check" /\ rule = "staleness" /\ Config.UncommittedMaxAge > 0 =>
          \A x \in Range(Entry("staleness/uncommitted")) \cup Range(Entry("staleness/untracked")) :
              x.Status = IF TreeIsOld(Config.UncommittedMaxAge) /\ Len(dirty) > 0
                         THEN StatusWarn ELSE StatusOK
    /\ op = "check" /\ rule = "unpushed" /\ "for-each-ref" \notin broken /\ Config.UnpushedMaxAge > 0 =>
          \A name \in DOMAIN branches :
              ~UnpushedSkips(gitcfg, branches, Config, name) =>
                  LET old == OldCommits(name, Config.UnpushedMaxAge)
                      e == Entry("staleness/unpushed[" \o name \o "]") IN
                  /\ Len(e) = IF old = {} THEN 0 ELSE 1
                  /\ old # {} =>
                        HasPrefix(e[1].Message,
                                  ToString(Cardinality(old)) \o "/"
                                    \o ToString(Len(branches[name].commits)) \o " commits older than ")

\* a Check has met one stash entry exactly as old as the threshold and one an
\* hour older, and has flagged the second alone
AtAndPastTheThreshold ==
    /\ op = "check" /\ rule = "staleness"
    /\ Config.StashMaxAge > 0 /\ Len(stash) = 2
    /\ now - stash[1] = Config.StashMaxAge
    /\ now - stash[2] = Config.StashMaxAge + 1
    /\ Entry("staleness/stash-age")[1].Details = <<StashDisplay(2)>>

\* C10 (as claimed): a staleness check whose threshold is zero or unset emits
\* no result, whatever stashes, dirty files or unpushed commits exist.
ZeroThresholdDisables ==
    /\ op = "check" /\ rule = "staleness" =>
          /\ Config.StashMaxAge = 0 => Entry("staleness/stash-age") = <<>>
          /\ Config.StashMaxCount = 0 => Entry("staleness/stash-count") = <<>>
          /\ Config.UncommittedMaxAge = 0 =>
                Entry("staleness/uncommitted") = <<>> /\ Entry("staleness/untracked") = <<>>
    /\ op = "check" /\ rule = "unpushed" /\ Config.UnpushedMaxAge = 0 => res = <<>>

\* C11 (as claimed): every result of the staleness rules (stash age, stash
\* count, uncommitted, untracked, unpushed) has status OK or WARN and is not
\* fixable; their Fix returns its input unchanged and issues no command; so
\* these rules never put a FAIL into the run's results.
StalenessWarnOnly ==
    rule \in {"staleness", "unpushed"} =>
        /\ \A i \in 1..Len(res) : res[i].Status \in {StatusOK, StatusWarn} /\ ~res[i].Fixable
        /\ op \in {"fix", "refix"} => res = prev /\ log = <<>>
        /\ ~hasFailures(res)

(***************************************************************************)
(* Properties of a run of all checks (RunSpec).                            *)
(***************************************************************************)
\* the statuses present in the list the run has gathered
StatusesOf(results) == {results[i].Status : i \in 1..Len(results)}

\* C12: for a repository that was opened, the run returns once every check
\* has contributed its results, and it returns 1 exactly when the gathered
\* list (Check output, or Fix output when fix is on) holds a FAIL result and 0
\* otherwise; WARN, FIX and OK results alone give 0.
ExitStatus ==
    /\ code \in {-1, 0, 1}
    /\ code # -1 <=> op = "done"
    /\ op = "done" =>
          /\ pc = Len(Rules) + 1
          /\ code = 1 <=> StatusFail \in StatusesOf(allResults)
          /\ StatusesOf(allResults) \subseteq {StatusOK, StatusWarn, StatusFix} => code = 0

\* a run with fix has ended with fixed entries and a warning left, and returned 0
FixedRunExitsZero ==
    /\ op = "done" /\ fix /\ code = 0
    /\ {StatusFix, StatusWarn} \subseteq StatusesOf(allResults)

(***************************************************************************)
(* Properties of Fix (Spec).                                               *)
(***************************************************************************)
\* cmd is one of the commands that remediate the entry e
Remedies(e, cmd) ==
    LET sp == splitResultName(e.Name) IN
    CASE e.Name = "identity/name" -> cmd = "config user.name"
      [] e.Name = "identity/email" -> cmd = "config user.email"
      [] sp[1] = "remote/protocol" -> cmd = "remote set-url " \o sp[2]
      [] e.Name = "remote/tracking" ->
            HasPrefix(cmd, "config branch.") /\ (HasSuffix(cmd, ".remote") \/ HasSuffix(cmd, ".merge"))
      [] e.Name = "remote/push-guard" -> HasPrefix(cmd, "config branch.") /\ HasSuffix(cmd, ".pushRemote")
      [] e.Name = "remote/gh-resolved" -> HasPrefix(cmd, "config remote.") /\ HasSuffix(cmd, ".gh-resolved")
      [] sp[1] = "remote/gh-resolved" /\ sp[2] # "" -> cmd = "config --unset " \o GhResolvedKey(sp[2])
      [] e.Name = "claude/attribution" -> cmd = "write settings"
      [] e.Name = "claude/exclude" -> HasPrefix(cmd, "write exclude ")
      [] sp[1] \in {"branch/gone", "branch/merged", "branch/pr", "branch/orphan"} -> cmd = "branch -D " \o sp[2]
      [] sp[1] = "submodule/init" -> cmd = "submodule update --init"
      [] OTHER -> FALSE

\* the positions in log of the commands that remediate the entry e
RemedyLog(e) == {k \in 1..Len(log) : Remedies(e, log[k].cmd)}

\* C13: Fix returns a list of the same length and order; each position holds
\* the input entry unchanged or a FIX result of the same name; a FIX result
\* stands only where the entry was fixable and every command of its
\* remediation succeeded; an entry that is not fixable, was not attempted or
\* met a failing command is passed through as it was.
FixPassesOrConfirms ==
    op \in {"fix", "refix"} =>
        /\ Len(res) = Len(prev)
        /\ \A i \in 1..Len(prev) :
              /\ \/ res[i] = prev[i]
                 \/ /\ res[i].Name = prev[i].Name
                    /\ res[i].Status = StatusFix /\ ~res[i].Fixable
                    /\ prev[i].Fixable
                    /\ RemedyLog(prev[i]) # {}
                    /\ \A k \in RemedyLog(prev[i]) : log[k].ok
              /\ \/ ~prev[i].Fixable
                 \/ RemedyLog(prev[i]) = {}
                 \/ \E k \in RemedyLog(prev[i]) : ~log[k].ok
                 => res[i] = prev[i]

\* a Fix has kept an entry whose remediation command failed and has fixed a
\* later entry of the same list
OneFailedOthersFixed ==
    /\ op = "fix"
    /\ \E i \in 1..Len(prev), j \in 1..Len(prev) :
          /\ i < j
          /\ prev[i].Fixable /\ res[i] = prev[i]
          /\ \E k \in RemedyLog(prev[i]) : ~log[k].ok
          /\ res[j].Status = StatusFix /\ prev[j].Status # StatusFix

\* C14 (as claimed): the remediation of an entry is one atomic command, so
\* after a Fix no entry has more than one command in the log, and an entry
\* still reported as it was has had none of its remediation applied.
FixIsOneCommand ==
    op \in {"fix", "refix"} =>
        \A i \in 1..Len(prev) :
            /\ Cardinality(RemedyLog(prev[i])) <= 1
            /\ res[i] = prev[i] => \A k \in RemedyLog(prev[i]) : ~log[k].ok

\* the entries of a result list about the branch
AboutBranch(results, name) == SelectSeq(results, LAMBDA x : splitResultName(x.Name)[2] = name)

\* C15: a branch other than main and the checked-out one whose upstream is
\* gone yields exactly one result, branch/gone[<name>], WARN and fixable; Fix
\* issues one forced delete of it and, when the delete succeeds, puts a FIX
\* result in its place; the branch is then gone and the next branch-cleanup
\* Check returns no result for it.
GoneScenario ==
    /\ rule = "branch" /\ op = "check" /\ "for-each-ref" \notin broken =>
          \A name \in (DOMAIN branches) \ {MainBranch(branches), head} :
              IsGone(name) =>
                  AboutBranch(res, name)
                    = <<Result("branch/gone[" \o name \o "]", StatusWarn,
                               "upstream deleted (" \o branches[name].hash \o " by "
                                 \o branches[name].author \o ")", TRUE)>>
    /\ rule = "branch" /\ op = "fix" =>
          \A i \in 1..Len(prev) :
              splitResultName(prev[i].Name)[1] = "branch/gone" /\ prev[i].Fixable =>
                  \E name \in {splitResultName(prev[i].Name)[2]} :
                      /\ Cardinality({k \in 1..Len(log) : log[k].cmd = "branch -D " \o name}) = 1
                      /\ \A k \in 1..Len(log) :
                            log[k].cmd = "branch -D " \o name /\ log[k].ok =>
                                /\ res[i] = Result(prev[i].Name, StatusFix, "deleted " \o name, FALSE)
                                /\ name \notin DOMAIN branches
                                /\ AboutBranch(CheckOf("branch", {}).results, name) = <<>>

\* a Fix has deleted a branch reported as gone
GoneBranchDeleted ==
    /\ rule = "branch" /\ op = "fix"
    /\ log = <<Cmd("branch -D feat", TRUE)>>
    /\ prev[1].Name = "branch/gone[feat]" /\ res[1].Status = StatusFix
    /\ "feat" \notin DOMAIN branches

\* the entries of a result list that come from the fork-specific remote checks
ForkSpecific(results) == SelectSeq(results, LAMBDA x : HasPrefix(x.Name, "remote/gh-resolved"))

\* the entries of a result list that come from the check named by the prefix
FromCheck(results, prefix) == SelectSeq(results, LAMBDA x : HasPrefix(x.Name, prefix))

\* C16: while the fork-parent API is unavailable and nothing is cached, the
\* resolution returns no fork parent and caches nothing, no remote/gh-resolved
\* result of any status is produced, the checks before and after the remote
\* check still contribute their results, and the run returns the code that
\* the other results give.
ApiUnavailable ==
    ~api.ok /\ Cache(gitcfg) = "" =>
        /\ \A w \in BOOLEAN :
              ForkParent(gitcfg, api, w).ret = "" /\ ForkParent(gitcfg, api, w).cfg = gitcfg
        /\ ForkSpecific(allResults) = <<>> /\ ForkSpecific(res) = <<>>
        /\ op = "done" =>
              /\ Len(FromCheck(allResults, "identity/")) = 2
              /\ FromCheck(allResults, "staleness/") # <<>>
              /\ code = IF hasFailures(SelectSeq(allResults,
                                                 LAMBDA x : ~HasPrefix(x.Name, "remote/gh-resolved")))
                        THEN 1 ELSE 0

\* a run has ended in which the API was asked about a fork and failed, while
\* a gh-resolved marker that a resolved parent would have had flagged is set
UnresolvedRunEnded ==
    /\ op = "done" /\ ~api.ok /\ Cache(gitcfg) = ""
    /\ apiCalls >= 1
    /\ GitConfig(gitcfg, GhResolvedKey("up")) = "other"
    /\ FromCheck(allResults, "remote/") # <<>>

(***************************************************************************)
(* Properties of Check on missing or unreadable data (Spec).               *)
(***************************************************************************)
\* C17 (as claimed): a Check with no data to evaluate returns nothing: the
\* staleness Check reports nothing about the stash when no stash entry
\* exists, the remote Check returns an empty list with fewer than two
\* remotes, and the submodule Check returns an empty list without .gitmodules.
AbsenceIsSilent ==
    op = "check" =>
        /\ rule = "staleness" /\ stash = <<>> /\ "stash list" \notin broken =>
              Entry("staleness/stash-age") = <<>> /\ Entry("staleness/stash-count") = <<>>
        /\ rule = "remote" /\ Len(remotes) < 2 => res = <<>>
        /\ rule = "submodule" /\ ~gitmodules => res = <<>>

\* C18 (as claimed): when the read a Check depends on fails (the subprocess
\* listing branches, stashes or submodule status, or a settings file that
\* cannot be read or parsed), the Check reports a WARN result and never an
\* empty list or only OK results.
DegradedWarns ==
    op = "check" =>
        LET warns == \E i \in 1..Len(res) : res[i].Status = StatusWarn IN
        /\ rule \in {"branch", "unpushed"} /\ "for-each-ref" \in broken => warns
        /\ rule = "staleness" /\ "stash list" \in broken => warns
        /\ rule = "submodule" /\ gitmodules /\ "submodule status" \in broken => warns
        /\ rule = "attribution" /\ Work /\ settings \in {"unreadable", "badjson", "badattr"} => warns

(***************************************************************************)
(* Properties of a recursive run (RecSpec).                                *)
(***************************************************************************)
\* the positions in e of the repositories runChecks is called on
Repos(e) == {i \in 1..Len(e) : e[i].dir /\ e[i].git /\ e[i].abs}

\* the positions in e of the repositories that fail fatally
Fatal(e) == {i \in 1..Len(e) : e[i].dir /\ e[i].git /\ (~e[i].abs \/ ~e[i].root)}

\* the largest of a non-empty set of codes, 0 for the empty set
Largest(S) == IF S = {} THEN 0 ELSE CHOOSE x \in S : \A y \in S : y <= x

\* C19: when a recursive run over at least one repository has returned, a
\* repository whose root cannot be determined has shown no results, every
\* other repository has been checked once, in order and with the run's fix
\* option, with the results and code it has on its own, and the exit status
\* is 2 if some repository failed fatally and else the largest of the
\* repositories' codes.
FatalStaysLocal ==
    op = "done" /\ Repos(entries) \cup Fatal(entries) # {} =>
        /\ Len(ran) = Cardinality(Repos(entries))
        /\ \A k \in 1..Len(ran) :
              /\ ran[k].entry \in Repos(entries)
              /\ \A j \in 1..Len(ran) : j < k => ran[j].entry < ran[k].entry
              /\ ran[k].fix = fix
              /\ LET e == entries[ran[k].entry] IN
                    IF ~e.root
                    THEN ran[k].results = <<>> /\ ~ran[k].shown
                    ELSE /\ ran[k].results = e.results
                         /\ ran[k].code = (IF hasFailures(e.results) THEN 1 ELSE 0)
                         /\ ran[k].shown = (~quiet \/ hasNonOK(e.results))
        /\ status = IF Fatal(entries) # {} THEN 2
                    ELSE Largest({ran[k].code : k \in 1..Len(ran)})

\* a recursive run has returned in which a repository failed fatally and a
\* sibling after it was checked and shown with a failure of its own
SiblingCheckedAfterFatal ==
    /\ op = "done"
    /\ status = 2
    /\ \E j, k \in 1..Len(ran) :
          /\ j < k
          /\ ~entries[ran[j].entry].root
          /\ ran[k].shown /\ ran[k].code = 1

\* the names of the entries of a result list
NamesOf(results) == {results[i].Name : i \in 1..Len(results)}

\* the branch is one that branch cleanup's PR-checkout or orphan detection
\* looks at: a pull-request checkout with a remote, or a branch without
\* upstream whose tip is by someone else
CleanupCovers(name) ==
    \/ /\ HasPrefix(GitConfig(gitcfg, "branch." \o name \o ".merge"), "refs/pull/")
       /\ GitConfig(gitcfg, "branch." \o name \o ".remote") # ""
    \/ IsOrphan(name)

\* C20 (as claimed): in one run, a branch that branch cleanup reports as
\* branch/pr[<b>] or branch/orphan[<b>] gets no staleness/unpushed[<b>]
\* result, and the unpushed check skips a branch only when branch cleanup's
\* PR-checkout or orphan detection covers it.
NoDuplicateWarnings ==
    op = "done" =>
        /\ \A b \in {"feat", "main", "master", "wip"} :
              \/ "branch/pr[" \o b \o "]" \in NamesOf(allResults)
              \/ "branch/orphan[" \o b \o "]" \in NamesOf(allResults)
              => "staleness/unpushed[" \o b \o "]" \notin NamesOf(allResults)
        /\ ~fix => \A b \in DOMAIN branches :
              UnpushedSkips(gitcfg, branches, Config, b) => CleanupCovers(b)

(***************************************************************************)
(* Properties of the order of the rules (RunSpec).                         *)
(***************************************************************************)
\* what the Check of rule r returns in the world W of the repository
ResultsIn(r, W) ==
    CASE r = "identity"    -> IdentityCheck(W.cfg, globalcfg, envcfg, Work, Config)
      [] r = "protocol"    -> ProtocolCheck(W.cfg, remotes, Config.Protocol)
      [] r = "remote"      -> RemoteCheck(W.cfg, remotes, W.branches, Work, Config.WorkOrgs, api, TRUE).results
      [] r = "attribution" -> AttributionCheck(W.settings, W.exclude, Work)
      [] r = "staleness"   -> StalenessCheck(stash, dirty, lastCommit, now, Config, broken)
      [] r = "submodule"   -> SubmoduleCheck(W.submods, gitmodules, broken)
      [] r = "branch"      -> BranchCleanupCheck(W.cfg, W.branches, remoteRefs, lsremote, head, Config, broken)
      [] r = "unpushed"    -> UnpushedCheck(W.cfg, W.branches, now, Config, broken)

\* C21 (as claimed): no rule's results depend on whether another rule's Fix
\* ran before it: when a rule's Check has run and its Fix is about to, every
\* other rule's Check returns the same results after that Fix as before it,
\* so that the rules can run in any order with the same results and exit
\* status.
OrderIrrelevant ==
    op = "rcheck" =>
        \A bad \in FailSets(LogCmds(FixOf(rule, res, {}).log)) :
            \E W \in {FixOf(rule, res, bad)} :
                \A r \in RuleSet \ {rule} :
                    ResultsIn(r, W) = ResultsIn(r, World(gitcfg, branches, settings, exclude, submods))

(***************************************************************************)
(* Properties of the submodule rule (Spec).                                *)
(***************************************************************************)
\* the positions of the fixable entries of a result list
FixableIn(results) == {i \in 1..Len(results) : results[i].Fixable}

\* C22: the submodule Check returns for an uninitialized submodule exactly
\* one result, submodule/init[<path>], fixable, and nothing else about that
\* path; the submodule Fix issues one initialize-and-update command when
\* there is a fixable entry and none otherwise, after a successful command
\* every fixable entry is a FIX result of the same name and the submodules
\* are initialized, after a failed one every entry is unchanged, and entries
\* that are not fixable pass through unchanged.
UninitializedSubmodule ==
    /\ op = "check" /\ rule = "submodule" /\ gitmodules /\ "submodule status" \notin broken =>
          \A k \in 1..Len(submods) :
              submods[k].prefix = "-" =>
                  \E r \in {AboutBranch(res, submods[k].path)} :
                      /\ Len(r) = 1
                      /\ r[1].Name = "submodule/init[" \o submods[k].path \o "]"
                      /\ r[1].Fixable
    /\ op = "fix" /\ rule = "submodule" =>
          /\ Len(res) = Len(prev)
          /\ \A i \in 1..Len(prev) : ~prev[i].Fixable => res[i] = prev[i]
          /\ FixableIn(prev) = {} => log = <<>>
          /\ FixableIn(prev) # {} =>
                /\ Len(log) = 1
                /\ log[1].cmd = "submodule update --init"
                /\ ~log[1].ok => res = prev
                /\ log[1].ok =>
                      /\ \A i \in FixableIn(prev) :
                            /\ res[i].Status = StatusFix
                            /\ res[i].Name = prev[i].Name
                      /\ \A k \in 1..Len(submods) : submods[k].prefix # "-"

\* the submodule Fix has initialized two submodules with one command
TwoSubmodulesOneCommand ==
    /\ op = "fix" /\ rule = "submodule"
    /\ Len(log) = 1 /\ log[1].ok
    /\ Cardinality(FixableIn(prev)) = 2
    /\ \A i \in 1..Len(res) : res[i].Status = StatusFix

(***************************************************************************)
(* Properties of the branch classifiers (Spec).                            *)
(***************************************************************************)
\* the tip of the branch is an ancestor of main's upstream or of main
TipInMain(name) ==
    /\ MainBranch(branches) # ""
    /\ \/ IsAncestor(gitcfg, branches, remoteRefs, name, MainBranch(branches) \o "@{upstream}")
       \/ IsAncestor(gitcfg, branches, remoteRefs, name, MainBranch(branches))

\* the live query for the branch's pull-request ref answered with a commit id
\* that does not start with the branch's short commit id
HeadMoved(name) ==
    /\ lsremote[name] \notin {"fail", ""}
    /\ ~HasPrefix(lsremote[name], branches[name].hash)

\* C23: for a branch that is neither gone nor merged, Check produces
\* branch/pr[<name>] exactly when the merge ref is a pull-request ref and the
\* tip is an ancestor of main (message "PR #N merged") or the remote query
\* answers with a commit id that does not start with the local short id
\* (message "PR #N updated since checkout"); when the query fails or returns
\* nothing the branch gets no branch/pr result and no FAIL result, and at
\* most one remote query is issued for the branch.
StalePRClassifier ==
    op = "check" /\ rule = "branch" /\ "for-each-ref" \notin broken =>
        \A name \in (DOMAIN branches) \ {MainBranch(branches)} :
            ~IsGone(name) /\ ~IsMerged(name) =>
                \E pr \in {Entry("branch/pr[" \o name \o "]")},
                   isPull \in {HasPrefix(GitConfig(gitcfg, "branch." \o name \o ".merge"), "refs/pull/")} :
                    /\ Len(pr) <= 1
                    /\ pr # <<>> <=> isPull /\ (TipInMain(name) \/ HeadMoved(name))
                    /\ pr # <<>> /\ TipInMain(name) => HasPrefix(pr[1].Message, "PR #42 merged")
                    /\ pr # <<>> /\ ~TipInMain(name) =>
                          HasPrefix(pr[1].Message, "PR #42 updated since checkout")
                    /\ isPull /\ ~TipInMain(name) /\ lsremote[name] \in {"fail", ""} =>
                          /\ pr = <<>>
                          /\ \A i \in 1..Len(res) : res[i].Status # StatusFail
                          /\ \A e \in {AboutBranch(res, name)} :
                                \A i \in 1..Len(e) : e[i].Name = "branch/orphan[" \o name \o "]"
                    /\ lsRemoteCalls(gitcfg, branches, remoteRefs, name, MainBranch(branches)) <= 1
                    /\ pr # <<>> /\ ~TipInMain(name) =>
                          lsRemoteCalls(gitcfg, branches, remoteRefs, name, MainBranch(branches)) = 1

\* a Check has reported a pull-request checkout whose remote head has moved
UpdatedPRReported ==
    /\ op = "check" /\ rule = "branch"
    /\ "feat" \in DOMAIN branches
    /\ HeadMoved("feat")
    /\ \E i \in 1..Len(res) :
          /\ res[i].Name = "branch/pr[feat]"
          /\ HasPrefix(res[i].Message, "PR #42 updated since checkout")

\* C24 (as claimed): ancestry is tested against main's remote-tracking ref
\* and local main is consulted only when that ref is not available: when main
\* has a remote-tracking ref, a branch whose tip is an ancestor of local main
\* but not of that ref is not reported as branch/merged, a branch merged
\* upstream is reported, and every branch/merged result on a branch that is
\* not checked out is fixable.
MergedUpstreamFirst ==
    op = "check" /\ rule = "branch" /\ "for-each-ref" \notin broken /\ MainBranch(branches) # "" =>
        \A name \in (DOMAIN branches) \ {MainBranch(branches)} :
            \E m \in {Entry("branch/merged[" \o name \o "]")},
               up \in {IsAncestor(gitcfg, branches, remoteRefs, name, MainBranch(branches) \o "@{upstream}")},
               loc \in {IsAncestor(gitcfg, branches, remoteRefs, name, MainBranch(branches))} :
                /\ HasUpstream(gitcfg, MainBranch(branches), remoteRefs) /\ loc /\ ~up => m = <<>>
                /\ up /\ ~IsGone(name) => Len(m) = 1
                /\ m # <<>> /\ name # head => m[1].Fixable

(***************************************************************************)
(* Properties of the statuses of results (Spec).                           *)
(***************************************************************************)
\* C25 (as claimed): in the results of every Check a FAIL result is fixable,
\* and a result that is not OK and not fixable is a WARN.
FailIsFixable ==
    op = "check" =>
        \A i \in 1..Len(res) :
            /\ res[i].Status = StatusFail => res[i].Fixable
            /\ res[i].Status # StatusOK /\ ~res[i].Fixable => res[i].Status = StatusWarn

(***************************************************************************)
(* Properties of the identity rule (Spec).                                 *)
(***************************************************************************)
\* C26 (as claimed): in a work repository identity/email is OK exactly when
\* the repository-local user.email is the work email, and FAIL and fixable
\* otherwise; in a personal repository it is OK exactly when the effective
\* user.email is the work or the personal email; a successful Fix has written
\* the work email (work repository) or the personal email (personal
\* repository) to the repository-local store, and the same Check then reports
\* OK.
IdentityEmail ==
    /\ op = "check" /\ rule = "identity" =>
          \E e \in {Entry("identity/email")} :
              /\ Len(e) = 1
              /\ e[1].Status = StatusOK <=>
                    IF Work THEN GitConfig(gitcfg, "user.email") = Config.WorkEmail
                    ELSE GitConfigEffective(gitcfg, globalcfg, envcfg, "user.email")
                            \in {Config.WorkEmail, Config.PersonalEmail}
              /\ e[1].Status # StatusOK => e[1].Status = StatusFail /\ e[1].Fixable
    /\ op = "fix" /\ rule = "identity" =>
          \A i \in 1..Len(res) :
              res[i].Name = "identity/email" /\ res[i].Status = StatusFix /\ prev[i].Status = StatusFail =>
                  /\ GitConfig(gitcfg, "user.email")
                        = (IF Work THEN Config.WorkEmail ELSE Config.PersonalEmail)
                  /\ \E again \in {Recheck("identity", res[i], {})} :
                        Len(again) = 1 /\ again[1].Status = StatusOK

(***************************************************************************)
(* Properties of the fork parent's remote (Spec).                          *)
(***************************************************************************)
\* the remote's URL parses to the owner and repository parent names
NamesParent(name, parent) ==
    \E pr \in {parseGitHubRepo(RemoteURL(gitcfg, name))} :
        pr[1] # "" /\ pr[1] \o "/" \o pr[2] = parent

\* C27 (as claimed): ForkParentRemote returns the first remote in enumeration
\* order, never origin, whose URL parses to the resolved parent, and none when
\* no remote matches; when the parent is resolved and no remote matches the
\* Check emits no
\* remote/gh-resolved result, no stale gh-resolved result and no FAIL for
\* remote/tracking.
ForkParentMatching ==
    op = "check" /\ rule = "remote" /\ Len(remotes) >= 2 =>
        \E parent \in {ForkParent(gitcfg, api, TRUE).ret},
           name \in {ForkParentRemote(gitcfg, remotes, api, TRUE).ret} :
            /\ name # "" =>
                  /\ name # "origin" /\ parent # ""
                  /\ \E i \in 1..Len(remotes) :
                        /\ remotes[i] = name
                        /\ NamesParent(name, parent)
                        /\ \A j \in 1..(i - 1) :
                              remotes[j] = "origin" \/ ~NamesParent(remotes[j], parent)
            /\ name = "" /\ parent # "" =>
                  /\ \A i \in 1..Len(remotes) :
                        remotes[i] = "origin" \/ ~NamesParent(remotes[i], parent)
                  /\ ForkSpecific(res) = <<>>
                  /\ \A i \in 1..Len(res) :
                        res[i].Name = "remote/tracking" => res[i].Status # StatusFail

FixIn(results) == {i \in 1..Len(results) : results[i].Status = StatusFix}

\* C29: no Check emits a FIX result; a run without fix has no FIX result in
\* its output; in a run with fix a FIX result stands only where the rule's
\* Check reported a fixable entry of the same name and the rule's Fix issued
\* a remediation command for it that succeeded; every FIX result is not
\* fixable; so a rule's FIX results are never more than the fixable entries
\* its Check reported.
FixProvenance ==
    /\ op = "rcheck" \/ ~fix => FixIn(res) = {}
    /\ ~fix => FixIn(allResults) = {}
    /\ \A i \in FixIn(allResults) : ~allResults[i].Fixable
    /\ fix /\ op \in {"run", "done"} =>
          /\ Len(res) = Len(prev)
          /\ FixIn(prev) = {}
          /\ \A i \in FixIn(res) :
                /\ prev[i].Fixable
                /\ res[i].Name = prev[i].Name
                /\ ~res[i].Fixable
                /\ \E k \in RemedyLog(prev[i]) : log[k].ok
          /\ Cardinality(FixIn(res)) <= Cardinality(FixableIn(prev))

\* in a run with fix, a rule's Fix has fixed one entry and kept another
\* fixable entry whose command failed
RunFixedSome ==
    /\ fix /\ op = "run"
    /\ FixIn(res) # {}
    /\ \E j \in FixableIn(prev) : res[j] = prev[j]
    /\ FixIn(allResults) # {}

(***************************************************************************)
(* Properties of the gh-resolved markers (Spec).                           *)
(***************************************************************************)
\* the gh-resolved marker of a remote
Marker(name) == GitConfig(gitcfg, "remote." \o name \o ".gh-resolved")

\* C30: in a repository with at least two remotes whose fork parent resolves
\* to a configured remote P, after a Check and a Fix in which every command
\* succeeded, P has gh-resolved = base and no other remote, origin included,
\* has a gh-resolved value; the Fix has written the marker of P only, never
\* that of origin; and a second Check reports remote/gh-resolved OK and no
\* remote/gh-resolved[<remote>] entry.
GhResolvedConverges ==
    op = "fix" /\ rule = "remote" /\ Len(remotes) >= 2 /\ (\A k \in 1..Len(log) : log[k].ok) =>
        \E P \in {ForkParentRemote(gitcfg, remotes, api, TRUE).ret} :
            P # "" =>
                /\ P # "origin" /\ \E i \in 1..Len(remotes) : remotes[i] = P
                /\ Marker(P) = "base"
                /\ \A i \in 1..Len(remotes) : remotes[i] # P => Marker(remotes[i]) = ""
                /\ \A k \in 1..Len(log) :
                      HasPrefix(log[k].cmd, "config remote.") /\ HasSuffix(log[k].cmd, ".gh-resolved")
                          => log[k].cmd = "config remote." \o P \o ".gh-resolved"
                /\ \E again \in {RemoteCheck(gitcfg, remotes, branches, Work, Config.WorkOrgs, api, TRUE).results} :
                      \E g \in {ForkSpecific(again)} :
                          /\ Len(g) = 1
                          /\ g[1].Name = "remote/gh-resolved"
                          /\ g[1].Status = StatusOK

\* a Fix has set the marker of the fork parent's remote and removed a stale
\* marker from origin
MarkerMoved ==
    /\ op = "fix" /\ rule = "remote"
    /\ \A k \in 1..Len(log) : log[k].ok
    /\ \E k \in 1..Len(log) : log[k].cmd = "config remote.up.gh-resolved"
    /\ \E k \in 1..Len(log) : log[k].cmd = "config --unset remote.origin.gh-resolved"
    /\ Marker("up") = "base" /\ Marker("origin") = ""

====
